---- MODULE Spec2Model ----
(***************************************************************************)
(* contriboo: the profile commit-counting pipeline.                        *)
(*                                                                         *)
(*   ProfileAnalysisService.count_total_commits  (profile/service.py)      *)
(*   GitHubProvider.find_repositories_for_author (requests_provider.py)    *)
(*   GitGateway                                  (git/gateway.py)          *)
(*                                                                         *)
(* Python strings are sequences of one-character strings, so that strip()  *)
(* and lower() are computed.  An Optional value is a sequence of length 0  *)
(* (None) or 1 (the value).                                                *)
(***************************************************************************)
EXTENDS Integers, Sequences, FiniteSets, TLC

\* ------------------------------------------------------------------ bounds
MaxRepos == 3
MaxCommits == 2
MaxRetries == 3
MaxPages == 2
MaxItems == 2
MaxClockAdvance == 2
MaxPartLen == 2
MaxTextLen == 5

\* ----------------------------------------------------------------- strings
None == <<>>
Some(x) == <<x>>

Str_a == <<"a">>
Str_b == <<"b">>
Str_Empty == <<>>
Str_SpA == <<" ", "A">>
Str_ASp == <<"A", " ">>
Str_B == <<"B">>
Str_Sp == <<" ">>
Str_BSp == <<"B", " ">>

LowerChar(c) == CASE c = "A" -> "a" [] c = "B" -> "b" [] OTHER -> c

Lower(s) == [i \in 1..Len(s) |-> LowerChar(s[i])]

\* The unit separator, "\x1f" in Python.
US == "<US>"

\* The characters str.strip() removes: blank, newline and the separators
\* \x1c-\x1f are whitespace for Python.
IsSpace(c) == c \in { " ", "\n", US }

RECURSIVE LStrip(_)
LStrip(s) == IF s # <<>> /\ IsSpace(Head(s)) THEN LStrip(Tail(s)) ELSE s

RECURSIVE RStrip(_)
RStrip(s) ==
    IF s # <<>> /\ IsSpace(s[Len(s)]) THEN RStrip(SubSeq(s, 1, Len(s) - 1)) ELSE s

Strip(s) == RStrip(LStrip(s))

RECURSIVE Text(_)
\* A Python string, kept as a sequence of characters, as one string.
Text(s) == IF s = <<>> THEN "" ELSE Head(s) \o Text(Tail(s))

\* `x or ""` for an Optional[str]: None and "" both give "".
OrEmpty(opt) == IF opt = None THEN Str_Empty ELSE opt[1]

\* -------------------------------------------------------------- exceptions
\* An exception: its class, its message, and the number formatted into the
\* message where there is one (0 otherwise).
ExcN(cls, msg, n) == [cls |-> cls, msg |-> msg, n |-> n]
Exc(cls, msg) == ExcN(cls, msg, 0)
NoExc == Exc("", "")

ContribooErrorClasses ==
    { "ContribooError", "ContribooConfigurationError", "InvalidDaysRangeError",
      "InvalidRepositoryNameError", "GitHubApiError", "GitHubRateLimitError",
      "GitHubConnectionError", "GitHubResponseSchemaError", "GitOperationError",
      "GitOperationTimeoutError" }

IsContribooError(e) == e.cls \in ContribooErrorClasses

InvalidDaysRangeError_must_be_positive_int_or_all ==
    Exc("InvalidDaysRangeError", "days must be positive int or 'all'")

\* What a history gateway can raise: the typed failures of GitGateway._run (the
\* test double raises GitOperationError without a message) and the OSError that
\* subprocess.run raises itself when the git binary cannot be started.
GatewayErrors ==
    { Exc("GitOperationError", ""),
      Exc("GitOperationTimeoutError", "Command timeout after 180s: git"),
      Exc("FileNotFoundError", "[Errno 2] No such file or directory: 'git'") }

\* What a repository provider can raise.
ProviderErrors ==
    { Exc("GitHubApiError", "GitHub API request failed"),
      Exc("GitHubConnectionError", "GitHub API is unreachable (DNS/network issue)"),
      Exc("RuntimeError", "provider failure") }

\* ------------------------------------------------------------------ inputs
\* A `days` argument as Python sees it: its type, and its value by type.
Days(t, s, n) == [t |-> t, s |-> s, n |-> n]

DaysValues ==
    { Days("str", "all", 0), Days("str", "week", 0), Days("str", "", 0),
      Days("int", "", 0), Days("int", "", -1), Days("int", "", 7),
      Days("bool", "", 1), Days("bool", "", 0),
      Days("float", "", 1), Days("none", "", 0) }

\* Names that normalize to "a", to "" (empty and blank) and to "b"; emails
\* absent, "", "b" and "a".
UsernameValues == { Str_ASp, Str_Empty, Str_Sp, Str_B }

EmailValues == { None, Some(Str_Sp), Some(Str_B), Some(Str_a) }

RepositoryName(owner, repo) == [owner |-> owner, repo |-> repo]

\* The i-th repository of an author: owner "a", a name of i letters.
RepoNamed(i) == RepositoryName(Str_a, [k \in 1..i |-> "a"])

\* The lists a provider returns: unique names, any length up to MaxRepos.
RepositoryLists == { [i \in 1..n |-> RepoNamed(i)] : n \in 0..MaxRepos }

RECURSIVE SeqsUpTo(_, _)
SeqsUpTo(S, n) ==
    IF n = 0 THEN { <<>> }
    ELSE LET shorter == SeqsUpTo(S, n - 1)
         IN shorter \cup { Append(q, x) : q \in { r \in shorter : Len(r) = n - 1 }, x \in S }

\* CommitSignature(author_email, author_name, committer_email, committer_name)
CommitSignature(ae, an, ce, cn) ==
    [author_email |-> ae, author_name |-> an, committer_email |-> ce,
     committer_name |-> cn]

\* Signature fields as a gateway may hand them over: not yet normalized.
NameFieldValues == { Str_Empty, Str_SpA }

EmailFieldValues == { Str_Empty, Str_BSp }

SignatureValues ==
    { CommitSignature(ae, an, ce, cn) :
        ae \in EmailFieldValues, an \in NameFieldValues,
        ce \in EmailFieldValues, cn \in NameFieldValues }

\* Three histories' worth: a commit matching the email "b" alone, one matching
\* the username "a" alone, one matching nothing.
SmallPool ==
    { CommitSignature(Str_Empty, Str_Empty, Str_BSp, Str_Empty),
      CommitSignature(Str_Empty, Str_SpA, Str_Empty, Str_Empty),
      CommitSignature(Str_Empty, Str_Empty, Str_Empty, Str_Empty) }

\* What resolve_mainline_branch gives the service: a branch name, which the
\* service hands on without looking into it, or None.
BranchValues == { Some("main"), None }

\* The directory tempfile.TemporaryDirectory(prefix="contriboo-") creates.
TargetRoot == "/tmp/contriboo-0"

\* ------------------------------------------------------ repository_name.py
RECURSIVE FirstSlash(_, _)
\* The index of the first "/" of s at or after position i, 0 when there is none.
FirstSlash(s, i) ==
    IF i > Len(s) THEN 0 ELSE IF s[i] = "/" THEN i ELSE FirstSlash(s, i + 1)

HasSlash(s) == FirstSlash(s, 1) # 0

InvalidRepositoryNameError_invalid_format ==
    Exc("InvalidRepositoryNameError", "repository name must be in format 'owner/repo'")

InvalidRepositoryNameError_slash_in_part ==
    Exc("InvalidRepositoryNameError", "owner and repo must not contain '/'")

\* Mutant: a '/' inside a part is let through.
PostInit_AllowsSlash(owner, repo) ==
    IF owner = Str_Empty \/ repo = Str_Empty THEN InvalidRepositoryNameError_invalid_format
    ELSE NoExc

\* RepositoryName.__post_init__: the exception it raises, NoExc when it accepts.
PostInit(owner, repo) ==
    IF owner = Str_Empty \/ repo = Str_Empty THEN InvalidRepositoryNameError_invalid_format
    ELSE IF HasSlash(owner) \/ HasSlash(repo) THEN InvalidRepositoryNameError_slash_in_part
    ELSE NoExc

\* RepositoryName.parse: value.split("/", maxsplit=1), both parts stripped, then
\* the constructor.  [exc, name]: exc is NoExc when the name is returned.
Parse(value) ==
    LET k == FirstSlash(value, 1)
        owner == Strip(SubSeq(value, 1, k - 1))
        repo == Strip(SubSeq(value, k + 1, Len(value)))
    IN IF k = 0
       THEN [exc |-> InvalidRepositoryNameError_invalid_format,
             name |-> RepositoryName(Str_Empty, Str_Empty)]
       ELSE [exc |-> PostInit(owner, repo), name |-> RepositoryName(owner, repo)]

\* ------------------------------------- integrations/github: the environment
GITHUB_RATE_LIMIT_STATUS == 403
LOCAL_RATE_LIMIT_RETRY_WINDOW_SEC == 60

\* int(time.time()) when _handle_rate_limit reads the clock.
TimeNow == 1000

\* datetime.now(UTC) when count_total_commits reads the clock for started_at.
ClockAtCall == 1000

\* The UTC day number of datetime.now() when _build_query reads the clock.
Today == 100

Name_a_a == <<"a", "/", "a">>
Name_a_sp_a == <<"a", "/", " ", "a">>
Name_b_a == <<"b", "/", "a">>
Name_ab == <<"a", "b">>

\* One item of a search page: its `repository` (Optional) and in it `full_name`
\* (Optional).
ItemValues ==
    { None, Some(None), Some(Some(Str_Empty)), Some(Some(Name_a_a)),
      Some(Some(Name_a_sp_a)), Some(Some(Name_b_a)), Some(Some(Name_ab)) }

\* What session.get, raise_for_status and json() give for one request.
Response(kind, status, remaining, reset, body, items) ==
    [kind |-> kind, status_code |-> status, remaining |-> remaining, reset |-> reset,
     body |-> body, items |-> items]

TransportFailures ==
    { Response(k, 0, None, None, "null", <<>>) : k \in { "ConnectionError", "Timeout" } }

\* X-RateLimit-Reset values on both sides of the local retry window.
ResetValues == { 998, 999, 1000, 1059, 1060, 1061 }

RateLimitResponses ==
    { Response("response", 403, Some("0"), Some(r), "object", <<>>) : r \in ResetValues }

OtherHttpErrors ==
    { Response("response", 403, Some("5"), Some(1000), "object", <<>>),
      Response("response", 403, Some("0"), None, "object", <<>>),
      Response("response", 404, Some("0"), Some(1000), "object", <<>>),
      Response("response", 500, None, None, "object", <<>>) }

\* The responses for which raise_for_status raises HTTPError.
HttpErrorResponses == RateLimitResponses \cup OtherHttpErrors

NonObjectResponses ==
    { Response("response", 200, None, None, b, <<>>) : b \in { "array", "scalar", "null" } }

PageResponses ==
    { Response("response", 200, None, None, "object", items) :
        items \in SeqsUpTo(ItemValues, MaxItems) }

HTTP_ERROR_STATUS_THRESHOLD == 400

\* --------------------------------------------------------------- variables
VARIABLES
    pc,               \* where count_total_commits is: "call", "discover", "enter",
                      \* "scan", "done" (returned), "raised" (an exception left it)
    days, username, email,   \* the arguments of the call
    provider_repositories,   \* the list the repository provider holds for the author
    stream_pool,      \* the signatures the gateway's histories are made of
    clock_advance,    \* how far the wall clock moves between the two
                      \* datetime.now() reads of a run
    started_at,       \* Optional: the reading of line 65
    repositories,     \* what find_repositories_for_author returned
    normalized_username, normalized_email,
    tmp_dir,          \* the TemporaryDirectory: "absent", "exists", "removed"
    index,            \* 1-based position of the repository being scanned
    repo_pc,          \* where _scan_single_repository is: "clone", "resolve",
                      \* "iter", "stream"; "idle" outside the scan
    branch,           \* Optional: the branch resolve_mainline_branch returned
    commit_count,     \* the counter of _count_matching_commits
    n_streamed,       \* signatures the stream has yielded for this repository
    signature,        \* Optional: the signature the loop body last handled
    results,          \* the list _scan_repositories appends to
    result,           \* Optional: the ProfileCommitCountResult returned
    raised,           \* the exception that left count_total_commits, or NoExc
    provider_calls,   \* calls of find_repositories_for_author so far
    git_log,          \* the gateway calls so far, in order, each with its outcome
    show_progress,    \* the show_progress argument of the call
    progress,         \* the progress lines logged so far, in order
    scan_target_root,      \* Optional: the temporary directory the scan created
    clone_roots,      \* the target_root argument of every clone_repository call, in order
    \* GitHubProvider
    p_pc,             \* where find_repositories_for_author is: "off", "start",
                      \* "request" (inside _get_json), "returned", "raised"
    retries, retry_delay_sec, max_search_pages,   \* the provider's configuration
    p_username, p_days,   \* the arguments of find_repositories_for_author
    query,            \* Optional: the query _build_query returned
    page,             \* the loop variable of find_repositories_for_author
    attempt,          \* the loop variable of _get_json
    found,            \* the keys of the `repositories` dict, in insertion order
    io_log,           \* session.get and time.sleep calls of the latest _get_json
                      \* call, in order
    requests,         \* the `page` parameter of every request so far, in order
    sent_params,      \* the `params` of every request of the call, in order
    hit_count,        \* items with a usable full_name read so far
    hit_names,        \* the identifiers those items named
    exc_response,     \* Optional: exc.response of the HTTPError that the latest
                      \* attempt of _get_json caught
    p_result,         \* Optional: the list find_repositories_for_author returned
    p_raised,         \* the exception find_repositories_for_author raised, or NoExc
    \* GitGateway
    g_pc,             \* where the gateway operation is: "off", "idle", "probe_master"
                      \* (resolve_mainline_branch after its first probe),
                      \* "returned", "raised"
    g_op,             \* the operation called: "clone", "resolve", "iter", "" before
    git_timeout_sec,  \* the gateway's configuration
    remote_branches,  \* the remote-tracking branches of the clone
    g_command,        \* Optional: the command of the latest _run call
    g_runs,           \* the subprocess.run calls of the operation, in order
    g_ret,            \* Optional: what the operation returned
    g_raised,         \* the exception the operation raised, or NoExc
    \* a value object or function called on its own
    call_pc,          \* "off", "idle", then what has been called
    call_args,        \* the arguments
    call_out          \* what the calls gave, in order

svars ==
    <<pc, days, username, email, provider_repositories, stream_pool, clock_advance, show_progress, scan_target_root, clone_roots, started_at, repositories, normalized_username, normalized_email,
      tmp_dir, index, repo_pc, branch, commit_count, n_streamed, signature, results,
      result, raised, provider_calls, git_log, progress>>

pvars ==
    <<p_pc, retries, retry_delay_sec, max_search_pages, p_username, p_days, query, page,
      attempt, found, io_log, requests, sent_params, hit_count, hit_names, exc_response, p_result,
      p_raised>>

gvars == <<g_pc, g_op, git_timeout_sec, remote_branches, g_command, g_runs, g_ret,
           g_raised>>

cvars == <<call_pc, call_args, call_out>>

vars == <<svars, pvars, gvars, cvars>>

\* Mutant: the isinstance(days, bool) test is missing.
ValidateDaysRaises_BoolAccepted(d) ==
    /\ ~(d.t = "str" /\ d.s = "all")
    /\ \/ d.t \notin { "int", "bool" }
       \/ d.n <= 0

\* ------------------------------------------------- profile/service.py: pure
\* _validate_days raises: `days == "all"` returns; a bool, a non-int or a value
\* <= 0 raises (isinstance(True, int) holds in Python, so bool is tested first).
ValidateDaysRaises(d) ==
    /\ ~(d.t = "str" /\ d.s = "all")
    /\ \/ d.t = "bool"
       \/ d.t \notin { "int", "bool" }
       \/ d.n <= 0

\* Mutant: the identity is trimmed but keeps its case.
NormalizeIdentity_NoLower(u, e) == <<Strip(u), Strip(OrEmpty(e))>>

\* _normalize_identity: (username.strip().lower(), (email or "").strip().lower())
NormalizeIdentity(u, e) == <<Lower(Strip(u)), Lower(Strip(OrEmpty(e)))>>

\* _normalize_signature: (author_name, committer_name, author_email, committer_email)
NormalizeSignature(sig) ==
    <<Lower(Strip(sig.author_name)), Lower(Strip(sig.committer_name)),
      Lower(Strip(sig.author_email)), Lower(Strip(sig.committer_email))>>

\* Mutant: the email rule without its non-empty guard.
MatchesEmail_NoGuard(ne, sig) ==
    LET n == NormalizeSignature(sig)
    IN ne = n[3] \/ ne = n[4]

\* matches_email: normalized_email and (normalized_email in (author_email, committer_email))
MatchesEmail(ne, sig) ==
    LET n == NormalizeSignature(sig)
    IN ne # Str_Empty /\ (ne = n[3] \/ ne = n[4])

\* Mutant: the name rule without its non-empty guard.
MatchesUsername_NoGuard(nu, sig) ==
    LET n == NormalizeSignature(sig)
    IN nu = n[1] \/ nu = n[2]

\* matches_username: normalized_username and (normalized_username in (author_name, committer_name))
MatchesUsername(nu, sig) ==
    LET n == NormalizeSignature(sig)
    IN nu # Str_Empty /\ (nu = n[1] \/ nu = n[2])

\* Mutant: no `continue` after an email match.
CountStep_NoContinue(count, nu, ne, sig) ==
    count + (IF MatchesEmail(ne, sig) THEN 1 ELSE 0)
          + (IF MatchesUsername(nu, sig) THEN 1 ELSE 0)

\* The loop body of _count_matching_commits for one signature.
CountStep(count, nu, ne, sig) ==
    IF MatchesEmail(ne, sig) THEN count + 1
    ELSE IF MatchesUsername(nu, sig) THEN count + 1
    ELSE count

RepositoryCommitCount(full_name, br, count, status, error) ==
    [full_name |-> full_name, branch |-> br, commit_count |-> count,
     status |-> status, error |-> error]

\* Mutant: the skipped record keeps the commits counted before the failure.
SkippedForError_KeepsCount(full_name, exc) ==
    [full_name |-> full_name, branch |-> None, commit_count |-> commit_count,
     status |-> "skipped", error |-> Some(exc.msg)]

\* Mutant: the handler's record keeps the branch and the count reached so far.
SkippedForError_KeepsProgress(full_name, exc) ==
    RepositoryCommitCount(full_name, branch, commit_count, "skipped", Some(exc.msg))

\* The record of the `except ContribooError` handler: error = str(exc).
SkippedForError(full_name, exc) ==
    RepositoryCommitCount(full_name, None, 0, "skipped", Some(exc.msg))

\* Mutant: the policy outcome carries no reason.
SkippedForBranch_NoReason(full_name) ==
    RepositoryCommitCount(full_name, None, 0, "skipped", None)

\* The record of the `branch is None` policy outcome.
SkippedForBranch(full_name) ==
    RepositoryCommitCount(full_name, None, 0, "skipped",
                          Some("main/master branch not found"))

OkResult(full_name, br, count) ==
    RepositoryCommitCount(full_name, br, count, "ok", None)

RECURSIVE SumCommitCount(_)
SumCommitCount(rs) ==
    IF rs = <<>> THEN 0 ELSE Head(rs).commit_count + SumCommitCount(Tail(rs))

RECURSIVE CountSkipped(_)
CountSkipped(rs) ==
    IF rs = <<>> THEN 0
    ELSE (IF Head(rs).status = "skipped" THEN 1 ELSE 0) + CountSkipped(Tail(rs))

\* Mutant: repos_scanned counts only the repositories that were not skipped.
BuildResult_ScannedWithoutSkipped(started, repos, repo_results) ==
    [total_commits |-> SumCommitCount(repo_results),
     repos_scanned |-> Len(repos) - CountSkipped(repo_results),
     repos_skipped |-> CountSkipped(repo_results),
     started_at    |-> started,
     finished_at   |-> started + clock_advance,
     repo_results  |-> repo_results]

\* _build_result: finished_at is read from the clock, after started_at was.
BuildResult(started, repos, repo_results) ==
    [total_commits |-> SumCommitCount(repo_results),
     repos_scanned |-> Len(repos),
     repos_skipped |-> CountSkipped(repo_results),
     started_at    |-> started,
     finished_at   |-> started + clock_advance,
     repo_results  |-> repo_results]

\* Mutant: finished_at is left at the epoch.
EmptyResult_NoFinishTime(started) ==
    [total_commits |-> 0, repos_scanned |-> 0, repos_skipped |-> 0,
     started_at |-> started, finished_at |-> 0, repo_results |-> <<>>]

\* _empty_result: finished_at is read from the clock, after started_at was.
EmptyResult(started) ==
    [total_commits |-> 0, repos_scanned |-> 0, repos_skipped |-> 0,
     started_at |-> started, finished_at |-> started + clock_advance,
     repo_results |-> <<>>]

\* A git_log entry: the operation, the 1-based repository it was for, what it
\* raised (NoExc when it returned) and, for "resolve", the branch it returned.
GitCall(op, i, exc, ret) == [op |-> op, i |-> i, exc |-> exc, ret |-> ret]

\* ---------------------------------------------- profile/service.py: actions
\* count_total_commits is called; nothing has happened yet.
ServiceStart ==
    /\ pc = "call"
    /\ started_at = None
    /\ repositories = <<>>
    /\ normalized_username = Str_Empty
    /\ normalized_email = Str_Empty
    /\ tmp_dir = "absent"
    /\ index = 0
    /\ repo_pc = "idle"
    /\ branch = None
    /\ commit_count = 0
    /\ n_streamed = 0
    /\ signature = None
    /\ results = <<>>
    /\ result = None
    /\ raised = NoExc
    /\ provider_calls = 0
    /\ git_log = <<>>
    /\ progress = <<>>
    /\ scan_target_root = None
    /\ clone_roots = <<>>

\* count_total_commits, lines 64-65: self._validate_days(days), then
\* started_at = datetime.now(UTC)
ValidateDays ==
    /\ pc = "call"
    /\ IF ValidateDaysRaises(days)
       THEN /\ pc' = "raised"
            /\ raised' = InvalidDaysRangeError_must_be_positive_int_or_all
            /\ UNCHANGED started_at
       ELSE /\ pc' = "discover"
            /\ started_at' = Some(ClockAtCall)
            /\ UNCHANGED raised
    /\ UNCHANGED <<pvars, gvars, cvars>>
    /\ UNCHANGED <<days, username, email, provider_repositories, stream_pool, clock_advance, show_progress, scan_target_root, clone_roots, repositories, normalized_username,
                   normalized_email, tmp_dir, index, repo_pc, branch, commit_count,
                   n_streamed, signature, results, result, provider_calls, git_log, progress>>

\* One progress line: logger.info of _emit_repository_start ("scanning") or of
\* _emit_repository_result (status and message).
ProgressLine(kind, status, message) ==
    [kind |-> kind, index |-> index, total |-> Len(repositories),
     full_name |-> repositories[index], status |-> status, message |-> message]

\* _scan_repositories, lines 117-122: `if show_progress: _emit_repository_start`
EmitRepositoryStart(log) ==
    IF show_progress THEN Append(log, ProgressLine("start", "scanning", "")) ELSE log

\* Mutant: the finished line always says "ok".
EmitRepositoryResult_AlwaysOk(log, status, message) ==
    IF show_progress THEN Append(log, ProgressLine("result", "ok", message)) ELSE log

\* _scan_single_repository, lines 168-175, 190-197 and 205-212:
\* `if show_progress: _emit_repository_result`
EmitRepositoryResult(log, status, message) ==
    IF show_progress THEN Append(log, ProgressLine("result", status, message)) ELSE log

\* The progress lines once the loop body has begun for the current repository:
\* the start line is logged right before _scan_single_repository is entered,
\* that is, as the clone step begins.
ScanProgress == IF repo_pc = "clone" THEN EmitRepositoryStart(progress) ELSE progress

\* Mutant: the exception leaves the scan without the `with` block's cleanup.
Propagate_LeavesDirectory(exc) ==
    /\ pc' = "raised"
    /\ raised' = exc
    /\ repo_pc' = "idle"
    /\ branch' = None
    /\ commit_count' = 0
    /\ n_streamed' = 0
    /\ signature' = None
    /\ progress' = ScanProgress
    /\ UNCHANGED <<tmp_dir, index, results, result>>

\* The scan is left with an exception: the `with` block removes the directory
\* and the exception leaves count_total_commits.
Propagate(exc) ==
    /\ pc' = "raised"
    /\ raised' = exc
    /\ tmp_dir' = "removed"
    /\ repo_pc' = "idle"
    /\ branch' = None
    /\ commit_count' = 0
    /\ n_streamed' = 0
    /\ signature' = None
    /\ progress' = ScanProgress
    /\ UNCHANGED <<index, results, result>>

\* Mutant: the outcome is put in front of the earlier ones.
FinishRepository_Prepends(record) ==
    LET appended == <<record>> \o results
    IN /\ results' = appended
       /\ repo_pc' = IF index < Len(repositories) THEN "clone" ELSE "idle"
       /\ branch' = None
       /\ commit_count' = 0
       /\ n_streamed' = 0
       /\ signature' = None
       /\ raised' = NoExc
       /\ IF index < Len(repositories)
          THEN /\ index' = index + 1
               /\ UNCHANGED <<pc, tmp_dir, result>>
          ELSE /\ pc' = "done"
               /\ tmp_dir' = "removed"
               /\ result' = Some(BuildResult(started_at[1], repositories, appended))
               /\ UNCHANGED index

\* _scan_single_repository returned `record`: results.append(record); after the
\* last repository the `with` block ends and _build_result makes the aggregate.
FinishRepository(record) ==
    LET appended == Append(results, record)
    IN /\ results' = appended
       /\ repo_pc' = IF index < Len(repositories) THEN "clone" ELSE "idle"
       /\ branch' = None
       /\ commit_count' = 0
       /\ n_streamed' = 0
       /\ signature' = None
       /\ raised' = NoExc
       /\ IF index < Len(repositories)
          THEN /\ index' = index + 1
               /\ UNCHANGED <<pc, tmp_dir, result>>
          ELSE /\ pc' = "done"
               /\ tmp_dir' = "removed"
               /\ result' = Some(BuildResult(started_at[1], repositories, appended))
               /\ UNCHANGED index

\* Mutant: the first failure of a repository starts its scan again.
HandleGatewayError_RetriesOnce(exc) ==
    IF IsContribooError(exc) /\ \A k \in 1..Len(git_log) :
                                    git_log[k].i = index => git_log[k].exc = NoExc
    THEN /\ repo_pc' = "clone"
         /\ branch' = None
         /\ commit_count' = 0
         /\ n_streamed' = 0
         /\ signature' = None
         /\ progress' = ScanProgress
         /\ UNCHANGED <<pc, tmp_dir, index, results, result, raised>>
    ELSE IF IsContribooError(exc)
    THEN /\ FinishRepository(SkippedForError(repositories[index], exc))
         /\ progress' = EmitRepositoryResult(ScanProgress, "skipped", exc.msg)
    ELSE Propagate(exc)

\* Mutant: the handler catches every exception.
HandleGatewayError_CatchesAll(exc) ==
    /\ FinishRepository(SkippedForError(repositories[index], exc))
    /\ progress' = EmitRepositoryResult(ScanProgress, "skipped", exc.msg)

\* Mutant: the handler re-raises what it caught.
HandleGatewayError_Reraise(exc) == Propagate(exc)

\* The `try` of _scan_single_repository met `exc`: a ContribooError becomes a
\* skipped record, anything else leaves the scan.
HandleGatewayError(exc) ==
    IF IsContribooError(exc)
    THEN /\ FinishRepository(SkippedForError(repositories[index], exc))
         /\ progress' = EmitRepositoryResult(ScanProgress, "skipped", exc.msg)
    ELSE Propagate(exc)

\* Mutant: a discovery failure is swallowed into an empty aggregate.
DiscoveryRaised_Swallowed(exc) ==
    /\ pc' = "done"
    /\ result' = Some(EmptyResult(started_at[1]))
    /\ UNCHANGED <<raised, repositories, normalized_username, normalized_email>>

\* count_total_commits, lines 67-70: find_repositories_for_author raised, and
\* nothing catches it.
DiscoveryRaised(exc) ==
    /\ pc' = "raised"
    /\ raised' = exc
    /\ UNCHANGED <<repositories, normalized_username, normalized_email, result>>

\* count_total_commits, lines 71-77: an empty list gives _empty_result at once;
\* otherwise the identity is normalized and the scan begins.
DiscoveryReturned(repos) ==
    /\ repositories' = repos
    /\ IF repos = <<>>
       THEN /\ pc' = "done"
            /\ result' = Some(EmptyResult(started_at[1]))
            /\ UNCHANGED <<normalized_username, normalized_email>>
       ELSE /\ pc' = "enter"
            /\ normalized_username' = NormalizeIdentity(username, email)[1]
            /\ normalized_email' = NormalizeIdentity(username, email)[2]
            /\ UNCHANGED result
    /\ UNCHANGED raised

\* count_total_commits, lines 67-77, with the provider as its Protocol: it
\* raises, or returns a list.
FindRepositories ==
    /\ pc = "discover"
    /\ provider_calls' = provider_calls + 1
    /\ \/ \E exc \in ProviderErrors :
            /\ p_raised' = exc
            /\ DiscoveryRaised(exc)
            /\ UNCHANGED p_result
       \/ /\ p_result' = Some(provider_repositories)
          /\ DiscoveryReturned(provider_repositories)
          /\ UNCHANGED p_raised
    /\ UNCHANGED <<p_pc, retries, retry_delay_sec, max_search_pages, p_username, p_days,
                   query, page, attempt, found, io_log, requests, sent_params, hit_count, hit_names,
                   exc_response>>
    /\ UNCHANGED <<gvars, cvars>>
    /\ UNCHANGED <<days, username, email, provider_repositories, stream_pool, clock_advance, show_progress, scan_target_root, clone_roots, started_at, tmp_dir, index, repo_pc, branch,
                   commit_count, n_streamed, signature, results, git_log, progress>>

\* Mutant: the clones are put into the workspace directory itself.
CloneTargetRoot_WorkspaceDir == "/tmp"

\* _scan_single_repository, line 165: the target_root handed to
\* clone_repository, Path(tmp_dir) of line 113.
CloneTargetRoot == scan_target_root[1]

\* _scan_repositories, lines 107-116: results = [], the TemporaryDirectory is
\* created and the loop starts at the first repository.
EnterTemporaryDirectory ==
    /\ pc = "enter"
    /\ pc' = "scan"
    /\ tmp_dir' = "exists"
    /\ results' = <<>>
    /\ index' = 1
    /\ repo_pc' = "clone"
    /\ scan_target_root' = Some(TargetRoot)
    /\ UNCHANGED <<pvars, gvars, cvars>>
    /\ UNCHANGED <<days, username, email, provider_repositories, stream_pool, clock_advance, show_progress, clone_roots, started_at, repositories, normalized_username,
                   normalized_email, branch, commit_count, n_streamed, signature,
                   result, raised, provider_calls, git_log, progress>>

\* _scan_single_repository, line 165: clone_repository
CloneRepository ==
    /\ pc = "scan" /\ repo_pc = "clone"
    /\ \/ /\ git_log' = Append(git_log, GitCall("clone", index, NoExc, None))
          /\ repo_pc' = "resolve"
          /\ progress' = ScanProgress
          /\ UNCHANGED <<pc, tmp_dir, index, branch, commit_count, n_streamed,
                         signature, results, result, raised>>
       \/ \E exc \in GatewayErrors :
            /\ git_log' = Append(git_log, GitCall("clone", index, exc, None))
            /\ HandleGatewayError(exc)
    /\ clone_roots' = Append(clone_roots, CloneTargetRoot)
    /\ UNCHANGED <<pvars, gvars, cvars>>
    /\ UNCHANGED <<days, username, email, provider_repositories, stream_pool, clock_advance, show_progress, scan_target_root, started_at, repositories, normalized_username,
                   normalized_email, provider_calls>>

\* _scan_single_repository, lines 166-182: resolve_mainline_branch and the
\* `branch is None` outcome.
ResolveMainlineBranch ==
    /\ pc = "scan" /\ repo_pc = "resolve"
    /\ \/ \E br \in BranchValues :
            /\ git_log' = Append(git_log, GitCall("resolve", index, NoExc, br))
            /\ IF br = None
               THEN /\ FinishRepository(SkippedForBranch(repositories[index]))
                    /\ progress' = EmitRepositoryResult(ScanProgress, "skipped",
                                                        "main/master branch not found")
               ELSE /\ branch' = br
                    /\ repo_pc' = "iter"
                    /\ UNCHANGED <<pc, tmp_dir, index, commit_count, n_streamed,
                                   signature, results, result, raised, progress>>
       \/ \E exc \in GatewayErrors :
            /\ git_log' = Append(git_log, GitCall("resolve", index, exc, None))
            /\ HandleGatewayError(exc)
    /\ UNCHANGED <<pvars, gvars, cvars>>
    /\ UNCHANGED <<days, username, email, provider_repositories, stream_pool, clock_advance, show_progress, scan_target_root, clone_roots, started_at, repositories, normalized_username,
                   normalized_email, provider_calls>>

\* _count_matching_commits, lines 241-242: commit_count = 0 and the call of
\* iter_commit_signatures, which raises or hands over an iterable.
IterCommitSignatures ==
    /\ pc = "scan" /\ repo_pc = "iter"
    /\ \/ /\ git_log' = Append(git_log, GitCall("iter", index, NoExc, None))
          /\ repo_pc' = "stream"
          /\ commit_count' = 0
          /\ UNCHANGED <<pc, tmp_dir, index, branch, n_streamed, signature, results,
                         result, raised, progress>>
       \/ \E exc \in GatewayErrors :
            /\ git_log' = Append(git_log, GitCall("iter", index, exc, None))
            /\ HandleGatewayError(exc)
    /\ UNCHANGED <<pvars, gvars, cvars>>
    /\ UNCHANGED <<days, username, email, provider_repositories, stream_pool, clock_advance, show_progress, scan_target_root, clone_roots, started_at, repositories, normalized_username,
                   normalized_email, provider_calls>>

\* _count_matching_commits, lines 242-260: the iterable yields one more
\* signature and the loop body handles it.
NextSignature ==
    /\ pc = "scan" /\ repo_pc = "stream"
    /\ n_streamed < MaxCommits
    /\ \E sig \in stream_pool :
         /\ signature' = Some(sig)
         /\ commit_count' =
                CountStep(commit_count, normalized_username, normalized_email, sig)
    /\ n_streamed' = n_streamed + 1
    /\ UNCHANGED <<pvars, gvars, cvars>>
    /\ UNCHANGED <<pc, days, username, email, provider_repositories, stream_pool, clock_advance, show_progress, scan_target_root, clone_roots, started_at, repositories, normalized_username,
                   normalized_email, tmp_dir, index, repo_pc, branch, results, result,
                   raised, provider_calls, git_log, progress>>

\* _count_matching_commits, line 262, and _scan_single_repository, lines
\* 184-203: the iterable is exhausted, the count is returned and recorded.
StreamEnds ==
    /\ pc = "scan" /\ repo_pc = "stream"
    /\ FinishRepository(OkResult(repositories[index], branch, commit_count))
    /\ progress' = EmitRepositoryResult(ScanProgress, "ok",
                                        ToString(commit_count) \o " matching commits")
    /\ UNCHANGED <<pvars, gvars, cvars>>
    /\ UNCHANGED <<days, username, email, provider_repositories, stream_pool, clock_advance, show_progress, scan_target_root, clone_roots, started_at, repositories, normalized_username,
                   normalized_email, provider_calls, git_log>>

\* The iterable raises while it is consumed (a generator-backed gateway).
StreamRaises ==
    /\ pc = "scan" /\ repo_pc = "stream"
    /\ \E exc \in GatewayErrors :
         /\ git_log' = Append(git_log, GitCall("stream", index, exc, None))
         /\ HandleGatewayError(exc)
    /\ UNCHANGED <<pvars, gvars, cvars>>
    /\ UNCHANGED <<days, username, email, provider_repositories, stream_pool, clock_advance, show_progress, scan_target_root, clone_roots, started_at, repositories, normalized_username,
                   normalized_email, provider_calls>>

ScanNext ==
    \/ EnterTemporaryDirectory
    \/ CloneRepository
    \/ ResolveMainlineBranch
    \/ IterCommitSignatures
    \/ NextSignature
    \/ StreamEnds
    \/ StreamRaises

\* ------------------------------ integrations/github/requests_provider.py
GitHubApiError_request_failed == Exc("GitHubApiError", "GitHub API request failed")

GitHubConnectionError_unreachable ==
    Exc("GitHubConnectionError", "GitHub API is unreachable (DNS/network issue)")

GitHubResponseSchemaError_non_object ==
    Exc("GitHubResponseSchemaError", "GitHub API returned non-object response")

InvalidDaysRangeError_must_be_positive_or_all ==
    Exc("InvalidDaysRangeError", "days must be > 0 or 'all'")

Max(a, b) == IF a >= b THEN a ELSE b

\* GitHubRateLimitError.exceeded: the message carries max(wait_seconds, 0).
GitHubRateLimitError_exceeded(wait_seconds) ==
    ExcN("GitHubRateLimitError", "GitHub rate limit exceeded. Wait about {n}s or use token.",
         Max(wait_seconds, 0))

\* _build_query: [exc, query]; the query is its author term and, Optional, the
\* day of its committer-date term.
BuildQuery(u, d) ==
    IF d.t = "str" /\ d.s = "all"
    THEN [exc |-> NoExc, query |-> Some([author |-> u, since |-> None])]
    ELSE IF d.t \notin { "int", "bool", "float" }
    THEN [exc |-> Exc("TypeError", "'<=' not supported"), query |-> None]
    ELSE IF d.t = "bool" \/ d.n <= 0
    THEN [exc |-> InvalidDaysRangeError_must_be_positive_or_all, query |-> None]
    ELSE [exc |-> NoExc, query |-> Some([author |-> u, since |-> Some(Today - d.n)])]

\* Mutant: the X-RateLimit-Remaining header is not looked at.
IsRateLimit_IgnoresRemaining(resp) ==
    /\ resp.status_code = GITHUB_RATE_LIMIT_STATUS
    /\ resp.reset # None

\* _handle_rate_limit, lines 223-230: the rate-limit signature.
IsRateLimit(resp) ==
    /\ resp.status_code = GITHUB_RATE_LIMIT_STATUS
    /\ resp.remaining = Some("0")
    /\ resp.reset # None

\* _handle_rate_limit, line 232
WaitSeconds(resp) == resp.reset[1] - TimeNow + 1

\* _handle_rate_limit, line 233
InLocalWindow(wait_seconds) ==
    0 < wait_seconds /\ wait_seconds <= LOCAL_RATE_LIMIT_RETRY_WINDOW_SEC

\* io_log entries.  A request: the page asked for, how it came out, and the
\* wait computed from it when it was a rate-limit response, the number of
\* items of the payload when it was a search page.  A sleep: the call
\* site ("retry": line 197, "rate_limit": line 234) and the seconds slept.
GetEvent(pg, out, wait) == [ev |-> "get", page |-> pg, out |-> out, n |-> wait]
SleepEvent(pg, site, seconds) == [ev |-> "sleep", page |-> pg, out |-> site, n |-> seconds]

\* `item.repository and item.repository.full_name`
Usable(item) == item # None /\ item[1] # None /\ item[1][1] # Str_Empty

\* Mutant: a list instead of a dict.
DictInsert_Append(keys, name) == Append(keys, name)

\* Mutant: a key that is set again moves to the end.
DictInsert_MoveToEnd(keys, name) ==
    Append(SelectSeq(keys, LAMBDA k : k # name), name)

\* `repositories[repository_name] = True`: a dict keeps one entry per key, in
\* the order of first insertion.
DictInsert(keys, name) ==
    IF \E i \in 1..Len(keys) : keys[i] = name THEN keys ELSE Append(keys, name)

RECURSIVE CollectItems(_, _)
\* find_repositories_for_author, lines 102-105: [keys, exc, hits, names] after
\* the items, stopping at the first full_name that RepositoryName.parse rejects.
CollectItems(acc, items) ==
    IF items = <<>> THEN acc
    ELSE IF ~Usable(Head(items)) THEN CollectItems(acc, Tail(items))
    ELSE LET parsed == Parse(Head(items)[1][1])
         IN IF parsed.exc # NoExc
            THEN [acc EXCEPT !.exc = parsed.exc]
            ELSE CollectItems([keys  |-> DictInsert(acc.keys, parsed.name),
                               exc   |-> NoExc,
                               hits  |-> acc.hits + 1,
                               names |-> acc.names \cup { parsed.name }],
                              Tail(items))

\* Mutant: a failed request ends the search with what was collected so far.
ProviderRaise_ReturnsPartial(exc) ==
    /\ p_pc' = "returned"
    /\ p_result' = Some(found)
    /\ UNCHANGED <<page, attempt, found, hit_count, hit_names, p_raised>>

ProviderRaise(exc) ==
    /\ p_pc' = "raised"
    /\ p_raised' = exc
    /\ UNCHANGED <<page, attempt, found, hit_count, hit_names, p_result>>

\* Mutant: one attempt too many before giving up.
RetryAllowed_OffByOne == attempt <= retries

\* _get_json, line 196: `if attempt < self._retries`
RetryAllowed == attempt < retries

\* Mutant: the range of attempts holds one value more.
RangeHasNext_OneMore == attempt <= retries

\* _get_json, line 179: range(1, self._retries + 1) has a value after `attempt`.
RangeHasNext == attempt < retries

\* Mutant: a used-up range of attempts is reported as a connection failure.
ContinueAttempts_ConnectionError ==
    IF RangeHasNext
    THEN /\ attempt' = attempt + 1
         /\ UNCHANGED <<p_pc, p_raised, page, found, hit_count, hit_names, p_result>>
    ELSE ProviderRaise(GitHubConnectionError_unreachable)

\* `continue` inside _get_json: the next attempt, or line 203 once the range
\* of attempts is used up.
ContinueAttempts ==
    IF RangeHasNext
    THEN /\ attempt' = attempt + 1
         /\ UNCHANGED <<p_pc, p_raised, page, found, hit_count, hit_names, p_result>>
    ELSE ProviderRaise(GitHubApiError_request_failed)

\* Mutant: the page loop runs one page past the cap.
HasNextPage_OneMore == page <= max_search_pages

\* find_repositories_for_author, line 94: range(1, self._max_search_pages + 1)
\* has a value after `page`.
HasNextPage == page < max_search_pages

\* find_repositories_for_author, line 91: the query is built.
BuildQueryStep ==
    /\ p_pc = "start"
    /\ LET built == BuildQuery(p_username, p_days)
       IN IF built.exc # NoExc
          THEN /\ p_pc' = "raised"
               /\ p_raised' = built.exc
               /\ UNCHANGED <<query, page, attempt>>
          ELSE /\ query' = built.query
               /\ p_pc' = "request"
               /\ page' = 1
               /\ attempt' = 1
               /\ UNCHANGED p_raised
    /\ UNCHANGED <<retries, retry_delay_sec, max_search_pages, p_username, p_days,
                   found, io_log, requests, sent_params, hit_count, hit_names, exc_response,
                   p_result>>
    /\ UNCHANGED <<svars, gvars, cvars>>

\* One attempt of _get_json (lines 179-201) for the current page and, when it
\* returns the payload, the rest of the page's turn in
\* find_repositories_for_author (lines 99-107).
\* The log of the _get_json call in progress: a call starts at attempt 1.
CallLog == IF attempt = 1 THEN <<>> ELSE io_log

\* date.isoformat(): a date is its day number n, written "day-n".
IsoFormat(day) == "day-" \o ToString(day)

\* _build_query, lines 126 and 132: the f-string of the query.
QueryString(q) ==
    IF q.since = None THEN "author:" \o Text(q.author)
    ELSE "author:" \o Text(q.author) \o " committer-date:>=" \o IsoFormat(q.since[1])

\* Mutant: the cutoff date is worked out again for every page.
RequestParams_CutoffPerPage ==
    [q |-> QueryString([author |-> query[1].author,
                        since |-> IF query[1].since = None THEN None
                                  ELSE Some(query[1].since[1] + page - 1)]),
     per_page |-> 100, page |-> page]

\* find_repositories_for_author, line 97: the params of a page request.
RequestParams == [q |-> QueryString(query[1]), per_page |-> 100, page |-> page]

\* Mutant: a page that names no repository ends the search.
PageIsEmpty_NothingUsable(resp) ==
    \A i \in 1..Len(resp.items) : ~Usable(resp.items[i])

\* find_repositories_for_author, line 99: `if not dto.items`
PageIsEmpty(resp) == resp.items = <<>>

\* Mutant: a body that is no object is retried like a transport failure.
NonObjectBody_Retried(resp) ==
    /\ exc_response' = None
    /\ IF RetryAllowed
       THEN /\ io_log' = CallLog \o <<GetEvent(page, "non_object", 0),
                                     SleepEvent(page, "retry", retry_delay_sec)>>
            /\ attempt' = attempt + 1
            /\ UNCHANGED <<p_pc, p_raised, page, found, hit_count, hit_names, p_result>>
       ELSE /\ io_log' = Append(CallLog, GetEvent(page, "non_object", 0))
            /\ ProviderRaise(GitHubResponseSchemaError_non_object)

\* _get_json, lines 187-189: response.json() is not a dict; the
\* GitHubResponseSchemaError raised in the `try` is caught by neither handler.
NonObjectBody(resp) ==
    /\ exc_response' = None
    /\ io_log' = Append(CallLog, GetEvent(page, "non_object", 0))
    /\ ProviderRaise(GitHubResponseSchemaError_non_object)

GetJsonAttempt ==
    /\ p_pc = "request"
    /\ \/ \* except (requests.ConnectionError, requests.Timeout)
          \E resp \in TransportFailures :
            /\ exc_response' = None
            /\ IF RetryAllowed
               THEN /\ io_log' = CallLog \o <<GetEvent(page, resp.kind, 0),
                                             SleepEvent(page, "retry", retry_delay_sec)>>
                    /\ attempt' = attempt + 1
                    /\ UNCHANGED <<p_pc, p_raised, page, found, hit_count, hit_names,
                                   p_result>>
               ELSE /\ io_log' = Append(CallLog, GetEvent(page, resp.kind, 0))
                    /\ ProviderRaise(GitHubConnectionError_unreachable)
       \/ \* except requests.HTTPError, no rate-limit signature
          \E resp \in HttpErrorResponses :
            /\ resp.status_code >= HTTP_ERROR_STATUS_THRESHOLD /\ ~IsRateLimit(resp)
            /\ exc_response' = Some(resp)
            /\ io_log' = Append(CallLog, GetEvent(page, "HTTPError", 0))
            /\ ProviderRaise(GitHubApiError_request_failed)
       \/ \* except requests.HTTPError, rate-limit signature
          \E resp \in HttpErrorResponses :
            /\ resp.status_code >= HTTP_ERROR_STATUS_THRESHOLD /\ IsRateLimit(resp)
            /\ exc_response' = Some(resp)
            /\ IF InLocalWindow(WaitSeconds(resp))
               THEN /\ io_log' = CallLog \o
                        <<GetEvent(page, "rate_limit", WaitSeconds(resp)),
                          SleepEvent(page, "rate_limit", WaitSeconds(resp))>>
                    /\ ContinueAttempts
               ELSE /\ io_log' = Append(CallLog,
                                        GetEvent(page, "rate_limit", WaitSeconds(resp)))
                    /\ ProviderRaise(GitHubRateLimitError_exceeded(WaitSeconds(resp)))
       \/ \* raw_json is not a dict
          \E resp \in NonObjectResponses : NonObjectBody(resp)
       \/ \* return raw_json
          \E resp \in PageResponses :
            LET got == CollectItems([keys |-> found, exc |-> NoExc, hits |-> hit_count,
                                     names |-> hit_names], resp.items)
            IN /\ exc_response' = None
               /\ io_log' = Append(CallLog, GetEvent(page, "object", Len(resp.items)))
               /\ found' = got.keys
               /\ hit_count' = got.hits
               /\ hit_names' = got.names
               /\ IF PageIsEmpty(resp)
                  THEN /\ p_pc' = "returned"
                       /\ p_result' = Some(found)
                       /\ UNCHANGED <<page, attempt, p_raised>>
                  ELSE IF got.exc # NoExc
                  THEN /\ p_pc' = "raised"
                       /\ p_raised' = got.exc
                       /\ UNCHANGED <<page, attempt, p_result>>
                  ELSE IF HasNextPage
                  THEN /\ page' = page + 1
                       /\ attempt' = 1
                       /\ UNCHANGED <<p_pc, p_raised, p_result>>
                  ELSE /\ p_pc' = "returned"
                       /\ p_result' = Some(got.keys)
                       /\ UNCHANGED <<page, attempt, p_raised>>
    /\ requests' = Append(requests, page)
    /\ sent_params' = Append(sent_params, RequestParams)
    /\ UNCHANGED <<retries, retry_delay_sec, max_search_pages, p_username, p_days, query>>
    /\ UNCHANGED <<svars, gvars, cvars>>

ProviderNext == BuildQueryStep \/ GetJsonAttempt

\* No value object or function is called on its own.
CallsOff ==
    /\ call_pc = "off"
    /\ call_args = <<>>
    /\ call_out = <<>>

\* The gateway's variables while no GitGateway is part of the run.
GatewayOff ==
    /\ g_pc = "off"
    /\ g_op = ""
    /\ git_timeout_sec = 0
    /\ remote_branches = {}
    /\ g_command = None
    /\ g_runs = <<>>
    /\ g_ret = None
    /\ g_raised = NoExc

\* The service's variables while the provider runs on its own.
ServiceOff ==
    /\ pc = "off"
    /\ days = Days("none", "", 0)
    /\ username = Str_Empty
    /\ email = None
    /\ provider_repositories = <<>>
    /\ stream_pool = {}
    /\ clock_advance = 0
    /\ show_progress = FALSE
    /\ started_at = None
    /\ repositories = <<>>
    /\ normalized_username = Str_Empty
    /\ normalized_email = Str_Empty
    /\ tmp_dir = "absent"
    /\ index = 0
    /\ repo_pc = "idle"
    /\ branch = None
    /\ commit_count = 0
    /\ n_streamed = 0
    /\ signature = None
    /\ results = <<>>
    /\ result = None
    /\ raised = NoExc
    /\ provider_calls = 0
    /\ git_log = <<>>
    /\ progress = <<>>
    /\ scan_target_root = None
    /\ clone_roots = <<>>

\* The provider's variables before find_repositories_for_author is called.
ProviderIdle ==
    /\ query = None
    /\ page = 0
    /\ attempt = 0
    /\ found = <<>>
    /\ io_log = <<>>
    /\ requests = <<>>
    /\ sent_params = <<>>
    /\ hit_count = 0
    /\ hit_names = {}
    /\ exc_response = None
    /\ p_result = None
    /\ p_raised = NoExc

ProviderDaysValues ==
    { Days("str", "all", 0), Days("int", "", 7), Days("int", "", 0), Days("bool", "", 1) }

RetryDelayValues == { 0, 2 }

\* A provider as GitHubProvider(...) constructs it, called on its own.
ProviderInit ==
    /\ ServiceOff
    /\ GatewayOff
    /\ CallsOff
    /\ ProviderIdle
    /\ p_pc = "start"
    /\ retries \in 1..MaxRetries
    /\ retry_delay_sec \in RetryDelayValues
    /\ max_search_pages \in 1..MaxPages
    /\ p_username = Str_a
    /\ p_days \in ProviderDaysValues

SpecProvider == ProviderInit /\ [][ProviderNext]_vars

\* A provider whose search is one page long: find_repositories_for_author
\* makes a single _get_json call.
GetJsonInit ==
    /\ ServiceOff
    /\ GatewayOff
    /\ CallsOff
    /\ ProviderIdle
    /\ p_pc = "start"
    /\ retries \in 1..MaxRetries
    /\ retry_delay_sec \in RetryDelayValues
    /\ max_search_pages = 1
    /\ p_username = Str_a
    /\ p_days \in ProviderDaysValues

SpecGetJson == GetJsonInit /\ [][ProviderNext]_vars

\* A provider of the smallest retry budgets, for searches of every length.
PagesInit ==
    /\ ServiceOff
    /\ GatewayOff
    /\ CallsOff
    /\ ProviderIdle
    /\ p_pc = "start"
    /\ retries \in 1..2
    /\ retry_delay_sec = 0
    /\ max_search_pages \in 1..MaxPages
    /\ p_username = Str_a
    /\ p_days \in ProviderDaysValues

SpecPages == PagesInit /\ [][ProviderNext]_vars

\* The same provider, with the call making progress: every request returns or
\* raises within its timeout and every sleep ends.
SpecPagesFair == PagesInit /\ [][ProviderNext]_vars /\ WF_vars(ProviderNext)

\* ------------------------------------- the service wired to GitHubProvider
\* count_total_commits, line 67: the call of find_repositories_for_author.
CallProvider ==
    /\ pc = "discover" /\ p_pc = "off"
    /\ pc' = "discovering"
    /\ provider_calls' = provider_calls + 1
    /\ p_pc' = "start"
    /\ p_username' = username
    /\ p_days' = days
    /\ UNCHANGED <<retries, retry_delay_sec, max_search_pages, query, page, attempt,
                   found, io_log, requests, sent_params, hit_count, hit_names, exc_response,
                   p_result, p_raised>>
    /\ UNCHANGED <<gvars, cvars>>
    /\ UNCHANGED <<days, username, email, provider_repositories, stream_pool, clock_advance, show_progress, scan_target_root, clone_roots, started_at, repositories, normalized_username,
                   normalized_email, tmp_dir, index, repo_pc, branch, commit_count,
                   n_streamed, signature, results, result, raised, git_log, progress>>

\* find_repositories_for_author has returned or raised: its frame is gone, and
\* count_total_commits goes on from line 71.
ProviderDone ==
    /\ pc = "discovering" /\ p_pc \in { "returned", "raised" }
    /\ IF p_pc = "returned" THEN DiscoveryReturned(p_result[1])
                            ELSE DiscoveryRaised(p_raised)
    /\ p_pc' = "off"
    /\ query' = None
    /\ page' = 0
    /\ attempt' = 0
    /\ found' = <<>>
    /\ io_log' = <<>>
    /\ requests' = <<>>
    /\ sent_params' = <<>>
    /\ exc_response' = None
    /\ UNCHANGED <<retries, retry_delay_sec, max_search_pages, p_username, p_days,
                   hit_count, hit_names, p_result, p_raised>>
    /\ UNCHANGED <<gvars, cvars>>
    /\ UNCHANGED <<days, username, email, provider_repositories, stream_pool, clock_advance, show_progress, scan_target_root, clone_roots, started_at, tmp_dir, index, repo_pc, branch,
                   commit_count, n_streamed, signature, results, provider_calls, git_log, progress>>

\* ContribooClient: one identity, a provider of the smallest configurations.
PipelineInit ==
    /\ ServiceStart
    /\ days \in DaysValues
    /\ username = Str_ASp
    /\ email = Some(Str_B)
    /\ provider_repositories = <<>>
    /\ stream_pool = SmallPool
    /\ clock_advance = 1
    /\ show_progress = FALSE
    /\ GatewayOff
    /\ CallsOff
    /\ ProviderIdle
    /\ p_pc = "off"
    /\ retries \in 1..2
    /\ retry_delay_sec = 2
    /\ max_search_pages \in 1..MaxPages
    /\ p_username = Str_Empty
    /\ p_days = Days("none", "", 0)

PipelineNext ==
    \/ ValidateDays
    \/ CallProvider
    \/ ProviderNext
    \/ ProviderDone
    \/ ScanNext

SpecPipeline == PipelineInit /\ [][PipelineNext]_vars

\* The provider's variables while the service runs against the provider Protocol.
ProviderOff ==
    /\ ProviderIdle
    /\ p_pc = "off"
    /\ retries = 1
    /\ retry_delay_sec = 0
    /\ max_search_pages = 1
    /\ p_username = Str_Empty
    /\ p_days = Days("none", "", 0)

\* A run over several repositories, for one identity.
Init ==
    /\ ServiceStart
    /\ days \in DaysValues
    /\ username = Str_ASp
    /\ email = Some(Str_B)
    /\ provider_repositories \in RepositoryLists
    /\ stream_pool = SmallPool
    /\ clock_advance = 1
    /\ show_progress = FALSE
    /\ GatewayOff
    /\ CallsOff
    /\ ProviderOff

Next ==
    \/ ValidateDays
    \/ FindRepositories
    \/ ScanNext

Spec == Init /\ [][Next]_vars

\* A run over one repository, for every identity and every signature.
MatchInit ==
    /\ ServiceStart
    /\ days \in { Days("str", "all", 0), Days("int", "", 7) }
    /\ username \in UsernameValues
    /\ email \in EmailValues
    /\ provider_repositories = <<RepoNamed(1)>>
    /\ stream_pool = SignatureValues
    /\ clock_advance = 1
    /\ show_progress = FALSE
    /\ GatewayOff
    /\ CallsOff
    /\ ProviderOff

SpecMatch == MatchInit /\ [][Next]_vars

\* A run over at most one repository, for every reading of the clock at the
\* end: the wall clock has not been set back since the call began.
ClockInit ==
    /\ ServiceStart
    /\ days \in DaysValues
    /\ username = Str_ASp
    /\ email = Some(Str_B)
    /\ provider_repositories \in { <<>>, <<RepoNamed(1)>> }
    /\ stream_pool = SmallPool
    /\ clock_advance \in 0..MaxClockAdvance
    /\ show_progress = FALSE
    /\ GatewayOff
    /\ CallsOff
    /\ ProviderOff

SpecClock == ClockInit /\ [][Next]_vars

\* A run over at most two repositories, with and without progress lines.
ProgressInit ==
    /\ ServiceStart
    /\ days \in DaysValues
    /\ username = Str_ASp
    /\ email = Some(Str_B)
    /\ provider_repositories \in { <<>>, <<RepoNamed(1)>>, <<RepoNamed(1), RepoNamed(2)>> }
    /\ stream_pool = SmallPool
    /\ clock_advance = 1
    /\ show_progress \in BOOLEAN
    /\ GatewayOff
    /\ CallsOff
    /\ ProviderOff

SpecProgress == ProgressInit /\ [][Next]_vars

\* --------------------------------------------- integrations/git/gateway.py
COMMIT_SIGNATURE_PARTS_COUNT == 4

RECURSIVE JoinArgs(_)
\* " ".join(command)
JoinArgs(command) ==
    IF command = <<>> THEN ""
    ELSE IF Len(command) = 1 THEN command[1]
    ELSE command[1] \o " " \o JoinArgs(Tail(command))

\* Mutant: the canonical string is the repository name alone.
AsFullName_RepoOnly(name) == name.repo

\* str(repository_full_name): f"{owner}/{repo}"
AsFullName(name) == name.owner \o <<"/">> \o name.repo

RECURSIVE ReplaceSlash(_)
\* s.replace("/", "__")
ReplaceSlash(s) ==
    IF s = <<>> THEN <<>>
    ELSE (IF Head(s) = "/" THEN <<"_", "_">> ELSE <<Head(s)>>) \o ReplaceSlash(Tail(s))

\* target_root / str(repository_full_name).replace("/", "__")
RepositoryDir(target_root, name) ==
    target_root \o "/" \o Text(ReplaceSlash(AsFullName(name)))

CloneCommand(target_root, name) ==
    <<"git", "clone", "--filter=blob:none", "--no-checkout",
      "https://github.com/" \o Text(AsFullName(name)) \o ".git",
      RepositoryDir(target_root, name)>>

RevParseCommand(br) == <<"git", "rev-parse", "--verify", "origin/" \o br>>

LogCommand(br) ==
    <<"git", "log", "origin/" \o br, "--pretty=format:%ae%x1f%an%x1f%ce%x1f%cn">>

GitOperationError_empty_command ==
    Exc("GitOperationError", "Git command must not be empty")

GitOperationError_unsupported_command ==
    Exc("GitOperationError", "Only git commands are allowed")

\* GitOperationTimeoutError.command_timeout
GitOperationTimeoutError_command_timeout(timeout_sec, command) ==
    ExcN("GitOperationTimeoutError",
         "Command timeout after " \o ToString(timeout_sec) \o "s: " \o JoinArgs(command),
         timeout_sec)

\* `except GitOperationError` catches the class and its subclass.
IsGitOperationError(e) == e.cls \in { "GitOperationError", "GitOperationTimeoutError" }

\* What subprocess.run does with a command: it returns a CompletedProcess,
\* raises TimeoutExpired after git_timeout_sec, or raises the OSError of a git
\* binary that cannot be started.
Completed(returncode, stdout, stderr) ==
    [kind |-> "completed", returncode |-> returncode, stdout |-> stdout,
     stderr |-> stderr]

TimeoutExpired == [kind |-> "timeout", returncode |-> 0, stdout |-> <<>>, stderr |-> <<>>]

GitNotStarted == [kind |-> "oserror", returncode |-> 0, stdout |-> <<>>, stderr |-> <<>>]

FileNotFoundError_git ==
    Exc("FileNotFoundError", "[Errno 2] No such file or directory: 'git'")

\* Mutant: only the empty command is refused.
ValidateCommand_AnyProgram(command) ==
    IF command = <<>> THEN GitOperationError_empty_command ELSE NoExc

\* _validate_command: the exception it raises, NoExc when the command passes.
ValidateCommand(command) ==
    IF command = <<>> THEN GitOperationError_empty_command
    ELSE IF command[1] # "git" THEN GitOperationError_unsupported_command
    ELSE NoExc

\* `a or b` for two strings.
OrStr(a, b) == IF a # <<>> THEN a ELSE b

\* _run: [exc, out, spawned]; exc is NoExc when the trimmed stdout is returned,
\* spawned tells whether subprocess.run was called.
Run(command, proc) ==
    IF ValidateCommand(command) # NoExc
    THEN [exc |-> ValidateCommand(command), out |-> <<>>, spawned |-> FALSE]
    ELSE IF proc.kind = "timeout"
    THEN [exc |-> GitOperationTimeoutError_command_timeout(git_timeout_sec, command),
          out |-> <<>>, spawned |-> TRUE]
    ELSE IF proc.kind = "oserror"
    THEN [exc |-> FileNotFoundError_git, out |-> <<>>, spawned |-> TRUE]
    ELSE IF proc.returncode # 0
    THEN [exc |-> Exc("GitOperationError",
                      IF OrStr(Strip(proc.stderr), Strip(proc.stdout)) # <<>>
                      THEN Text(OrStr(Strip(proc.stderr), Strip(proc.stdout)))
                      ELSE "Git command failed"),
          out |-> <<>>, spawned |-> TRUE]
    ELSE [exc |-> NoExc, out |-> Strip(proc.stdout), spawned |-> TRUE]

\* _has_branch: [exc, value]; a GitOperationError of the probe, the timeout
\* included, is answered with False, anything else leaves the method.
HasBranch(br, proc) ==
    LET r == Run(RevParseCommand(br), proc)
    IN IF r.exc = NoExc THEN [exc |-> NoExc, value |-> TRUE]
       ELSE IF IsGitOperationError(r.exc) THEN [exc |-> NoExc, value |-> FALSE]
       ELSE [exc |-> r.exc, value |-> FALSE]

RECURSIVE FirstIndexOf(_, _, _)
\* The index of the first c in s at or after position i, 0 when there is none.
FirstIndexOf(s, c, i) ==
    IF i > Len(s) THEN 0 ELSE IF s[i] = c THEN i ELSE FirstIndexOf(s, c, i + 1)

RECURSIVE Split(_, _)
\* s.split(sep) for a one-character sep
Split(s, sep) ==
    LET k == FirstIndexOf(s, sep, 1)
    IN IF k = 0 THEN <<s>>
       ELSE <<SubSeq(s, 1, k - 1)>> \o Split(SubSeq(s, k + 1, Len(s)), sep)

\* s.splitlines(): no line for the empty string, none after a final newline.
SplitLines(s) ==
    LET parts == Split(s, "\n")
    IN IF s = <<>> THEN <<>>
       ELSE IF parts[Len(parts)] = <<>> THEN SubSeq(parts, 1, Len(parts) - 1)
       ELSE parts

\* [part.strip().lower() for part in line.split("\x1f")]
LineParts(line) ==
    LET raw == Split(line, US)
    IN [i \in 1..Len(raw) |-> Lower(Strip(raw[i]))]

RECURSIVE ParseLines(_)
\* The loop of iter_commit_signatures: a line with another number of parts is
\* passed over.
ParseLines(lines) ==
    IF lines = <<>> THEN <<>>
    ELSE LET parts == LineParts(Head(lines))
         IN (IF Len(parts) # COMMIT_SIGNATURE_PARTS_COUNT THEN <<>>
             ELSE <<CommitSignature(parts[1], parts[2], parts[3], parts[4])>>)
            \o ParseLines(Tail(lines))

\* iter_commit_signatures after _run returned raw
ParseLog(raw) == IF raw = <<>> THEN <<>> ELSE ParseLines(SplitLines(raw))

\* ------------------------------------------ integrations/git: environment
GitStderr == <<"f", "a", "t", "a", "l", "\n">>

RevisionText == <<"c", "0", "\n">>

\* git rev-parse --verify origin/<br> in the clone, if it runs to its end:
\* the revision when the remote-tracking branch exists, exit 128 otherwise.
RevParseCompleted(br) ==
    IF br \in remote_branches THEN Completed(0, RevisionText, <<>>)
    ELSE Completed(128, <<>>, GitStderr)

RevParseOutcomes(br) == { RevParseCompleted(br), TimeoutExpired, GitNotStarted }

\* git clone: done, refused with a message, failed with output on stdout only,
\* failed without a word, timed out, not started.
CloneOutcomes ==
    { Completed(0, <<>>, <<"o", "k", "\n">>),
      Completed(128, <<>>, GitStderr),
      Completed(1, <<"n", "o", "\n">>, <<" ">>),
      Completed(1, <<>>, <<>>),
      TimeoutExpired, GitNotStarted }

\* What git log prints: nothing; one line " B<US>A <US>b<US>a"; a line of
\* three parts between two lines of four; a line of five parts; the line
\* "<US>a<US>b<US>a" of a commit whose author email is empty; two lines, the
\* second "b<US>a<US>b<US>" of a commit whose committer name is empty.
LogOutputs ==
    { <<>>,
      <<US, "a", US, "b", US, "a">>,
      <<"b", US, "a", US, "b", US, "a", "\n", "b", US, "a", US, "b", US, "\n">>,
      <<" ", "B", US, "A", " ", US, "b", US, "a">>,
      <<"b", US, "a", US, "b", US, "a", "\n", "b", US, "a", US, "b", "\n",
        "a", US, "b", US, "a", US, "b", "\n">>,
      <<"b", US, "a", US, "b", US, "a", US, "b">> }

LogOutcomes(br) ==
    (IF br \in remote_branches
     THEN { Completed(0, out, <<>>) : out \in LogOutputs }
     ELSE { Completed(128, <<>>, GitStderr) })
    \cup { TimeoutExpired, GitNotStarted }

\* One subprocess.run call: its command and how it ended.
RunEntry(command, proc) == [command |-> command, kind |-> proc.kind,
                            returncode |-> proc.returncode, stdout |-> proc.stdout]

\* ------------------------------------------ integrations/git: operations
\* _run is called with `command`: subprocess.run is called when the command
\* has passed _validate_command, and not otherwise.
RunCalled(command, proc) ==
    /\ g_command' = Some(command)
    /\ g_runs' = IF Run(command, proc).spawned
                 THEN Append(g_runs, RunEntry(command, proc))
                 ELSE g_runs

\* The operation returns value.
GatewayReturns(value) ==
    /\ g_pc' = "returned"
    /\ g_ret' = Some(value)
    /\ UNCHANGED g_raised

\* The operation raises exc.
GatewayRaises(exc) ==
    /\ g_pc' = "raised"
    /\ g_raised' = exc
    /\ UNCHANGED g_ret

\* clone_repository
GitCloneRepository ==
    /\ g_pc = "idle"
    /\ g_op' = "clone"
    /\ \E i \in 1..2, proc \in CloneOutcomes :
         LET command == CloneCommand(TargetRoot, RepoNamed(i))
             r == Run(command, proc)
         IN /\ RunCalled(command, proc)
            /\ IF r.exc = NoExc
               THEN GatewayReturns(RepositoryDir(TargetRoot, RepoNamed(i)))
               ELSE GatewayRaises(r.exc)
    /\ UNCHANGED <<git_timeout_sec, remote_branches>>
    /\ UNCHANGED <<svars, pvars, cvars>>

\* resolve_mainline_branch, lines 71-72: the probe of origin/main.
GitResolveMainlineBranch ==
    /\ g_pc = "idle"
    /\ g_op' = "resolve"
    /\ \E proc \in RevParseOutcomes("main") :
         LET has == HasBranch("main", proc)
         IN /\ RunCalled(RevParseCommand("main"), proc)
            /\ IF has.exc # NoExc THEN GatewayRaises(has.exc)
               ELSE IF has.value THEN GatewayReturns(Some("main"))
               ELSE /\ g_pc' = "probe_master"
                    /\ UNCHANGED <<g_ret, g_raised>>
    /\ UNCHANGED <<git_timeout_sec, remote_branches>>
    /\ UNCHANGED <<svars, pvars, cvars>>

\* resolve_mainline_branch, lines 73-75: the probe of origin/master.
GitResolveMainlineBranchMaster ==
    /\ g_pc = "probe_master"
    /\ \E proc \in RevParseOutcomes("master") :
         LET has == HasBranch("master", proc)
         IN /\ RunCalled(RevParseCommand("master"), proc)
            /\ IF has.exc # NoExc THEN GatewayRaises(has.exc)
               ELSE IF has.value THEN GatewayReturns(Some("master"))
               ELSE GatewayReturns(None)
    /\ UNCHANGED <<g_op, git_timeout_sec, remote_branches>>
    /\ UNCHANGED <<svars, pvars, cvars>>

\* iter_commit_signatures
GitIterCommitSignatures ==
    /\ g_pc = "idle"
    /\ g_op' = "iter"
    /\ \E br \in { "main", "master" } : \E proc \in LogOutcomes(br) :
         LET r == Run(LogCommand(br), proc)
         IN /\ RunCalled(LogCommand(br), proc)
            /\ IF r.exc = NoExc THEN GatewayReturns(ParseLog(r.out))
                                ELSE GatewayRaises(r.exc)
    /\ UNCHANGED <<git_timeout_sec, remote_branches>>
    /\ UNCHANGED <<svars, pvars, cvars>>

\* Command lists as _run may be handed them: none, other programs, git under
\* another spelling, git.
RunCommands ==
    { <<>>, <<"ls">>, <<"sh", "-c", "git status">>, <<"Git", "status">>,
      <<" git", "status">>, <<"git">>, <<"git", "status">> }

RunOutcomes ==
    { Completed(0, <<"o", "k", "\n">>, <<>>), Completed(1, <<>>, GitStderr),
      TimeoutExpired, GitNotStarted }

\* _run, called on its own.
GitRun ==
    /\ g_pc = "idle"
    /\ g_op' = "run"
    /\ \E command \in RunCommands, proc \in RunOutcomes :
         LET r == Run(command, proc)
         IN /\ RunCalled(command, proc)
            /\ IF r.exc = NoExc THEN GatewayReturns(r.out) ELSE GatewayRaises(r.exc)
    /\ UNCHANGED <<git_timeout_sec, remote_branches>>
    /\ UNCHANGED <<svars, pvars, cvars>>

GatewayNext ==
    \/ GitRun
    \/ GitCloneRepository
    \/ GitResolveMainlineBranch
    \/ GitResolveMainlineBranchMaster
    \/ GitIterCommitSignatures

GitTimeoutValues == { 1, 180 }

\* A GitGateway as GitGateway(git_timeout_sec) constructs it, over a clone
\* with any of the two mainline branches, and one operation called on it.
GatewayInit ==
    /\ ServiceOff
    /\ ProviderOff
    /\ CallsOff
    /\ g_pc = "idle"
    /\ g_op = ""
    /\ git_timeout_sec \in GitTimeoutValues
    /\ remote_branches \in SUBSET { "main", "master" }
    /\ g_command = None
    /\ g_runs = <<>>
    /\ g_ret = None
    /\ g_raised = NoExc

SpecGateway == GatewayInit /\ [][GatewayNext]_vars

\* ------------------------------------ clone directories of several clones
NameChars == { "a", "_" }

\* Owners and repository names of at most MaxPartLen characters.
NameParts == SeqsUpTo(NameChars, MaxPartLen) \ { <<>> }

\* The identifiers RepositoryName(owner, repo) constructs without raising.
ValidNames ==
    { RepositoryName(o, r) : o \in NameParts, r \in NameParts }

\* Two identifiers to be cloned under one target_root.
CloneDirInit ==
    /\ ServiceOff
    /\ ProviderOff
    /\ GatewayOff
    /\ call_pc = "idle"
    /\ call_args \in { <<n1, n2>> : n1 \in ValidNames, n2 \in ValidNames }
    /\ call_out = <<>>

\* clone_repository, line 47, for the next identifier: its repository_dir.
CloneDirectory ==
    /\ call_pc \in { "idle", "clone_repository" }
    /\ Len(call_out) < Len(call_args)
    /\ call_pc' = "clone_repository"
    /\ call_out' = Append(call_out,
                          RepositoryDir(TargetRoot, call_args[Len(call_out) + 1]))
    /\ UNCHANGED call_args
    /\ UNCHANGED <<svars, pvars, gvars>>

SpecCloneDir == CloneDirInit /\ [][CloneDirectory]_vars

\* ------------------------------------------- RepositoryName.parse, alone
TextChars == { "a", "A", "/", " " }

\* The strings of at most MaxTextLen characters.
Texts == SeqsUpTo(TextChars, MaxTextLen)

ParseInit ==
    /\ ServiceOff
    /\ ProviderOff
    /\ GatewayOff
    /\ call_pc = "idle"
    /\ call_args \in { <<value>> : value \in Texts }
    /\ call_out = <<>>

\* RepositoryName.parse(value)
RepositoryNameParse ==
    /\ call_pc = "idle"
    /\ call_pc' = "parse"
    /\ call_out' = <<Parse(call_args[1])>>
    /\ UNCHANGED call_args
    /\ UNCHANGED <<svars, pvars, gvars>>

\* RepositoryName.parse(str(name)) for the name that parse returned.
RepositoryNameParseAgain ==
    /\ call_pc = "parse"
    /\ call_out[1].exc = NoExc
    /\ call_pc' = "parse_again"
    /\ call_out' = Append(call_out, Parse(AsFullName(call_out[1].name)))
    /\ UNCHANGED call_args
    /\ UNCHANGED <<svars, pvars, gvars>>

ParseNext == RepositoryNameParse \/ RepositoryNameParseAgain

SpecParse == ParseInit /\ [][ParseNext]_vars

\* ------------------------- find_repositories_for_author: the pages' items
\* Items as the search gives them: no repository, a/a, a/a written "a/ a", b/a.
CollectItemValues ==
    { None, Some(Some(Name_a_a)), Some(Some(Name_a_sp_a)), Some(Some(Name_b_a)) }

\* The item lists of the pages of one search, in the order of the pages.
PageItemLists ==
    LET lists == SeqsUpTo(CollectItemValues, MaxItems)
    IN { <<first>> : first \in lists } \cup
       { <<first, second>> : first \in lists \ { <<>> }, second \in lists }

\* `repositories` of find_repositories_for_author before the first page.
NothingCollected == [keys |-> <<>>, exc |-> NoExc, hits |-> 0, names |-> {}]

CollectInit ==
    /\ ServiceOff
    /\ ProviderOff
    /\ GatewayOff
    /\ call_pc = "idle"
    /\ call_args \in PageItemLists
    /\ call_out = <<>>

\* find_repositories_for_author, lines 99-105, for the next page read: an
\* empty page ends the search, the items of any other page are collected.
CollectPage ==
    /\ call_pc \in { "idle", "collect" }
    /\ Len(call_out) < Len(call_args)
    /\ LET items == call_args[Len(call_out) + 1]
           acc == IF call_out = <<>> THEN NothingCollected ELSE call_out[Len(call_out)]
       IN IF items = <<>>
          THEN /\ call_pc' = "return"
               /\ call_out' = Append(call_out, acc)
          ELSE /\ call_pc' = IF Len(call_out) + 1 < Len(call_args) THEN "collect"
                                                                     ELSE "return"
               /\ call_out' = Append(call_out, CollectItems(acc, items))
    /\ UNCHANGED call_args
    /\ UNCHANGED <<svars, pvars, gvars>>

SpecCollect == CollectInit /\ [][CollectPage]_vars

\* -------------------------------------------------------------- settings.py
ContribooConfigurationError_invalid_http_timeout ==
    Exc("ContribooConfigurationError", "http_timeout_sec must be > 0")

ContribooConfigurationError_invalid_http_retries ==
    Exc("ContribooConfigurationError", "http_retries must be > 0")

ContribooConfigurationError_invalid_http_retry_delay ==
    Exc("ContribooConfigurationError", "http_retry_delay_sec must be >= 0")

ContribooConfigurationError_invalid_git_timeout ==
    Exc("ContribooConfigurationError", "git_timeout_sec must be > 0")

ContribooConfigurationError_invalid_max_search_pages ==
    Exc("ContribooConfigurationError", "max_search_pages must be > 0")

\* Mutant: the retry delay is validated like the other numbers.
SettingsPostInit_DelayPositive(st) ==
    IF st.http_timeout_sec <= 0 THEN ContribooConfigurationError_invalid_http_timeout
    ELSE IF st.http_retries <= 0 THEN ContribooConfigurationError_invalid_http_retries
    ELSE IF st.http_retry_delay_sec <= 0
    THEN ContribooConfigurationError_invalid_http_retry_delay
    ELSE IF st.git_timeout_sec <= 0 THEN ContribooConfigurationError_invalid_git_timeout
    ELSE IF st.max_search_pages <= 0
    THEN ContribooConfigurationError_invalid_max_search_pages
    ELSE NoExc

\* ContribooSettings.__post_init__: the exception it raises, NoExc when the
\* settings are accepted.
SettingsPostInit(st) ==
    IF st.http_timeout_sec <= 0 THEN ContribooConfigurationError_invalid_http_timeout
    ELSE IF st.http_retries <= 0 THEN ContribooConfigurationError_invalid_http_retries
    ELSE IF st.http_retry_delay_sec < 0
    THEN ContribooConfigurationError_invalid_http_retry_delay
    ELSE IF st.git_timeout_sec <= 0 THEN ContribooConfigurationError_invalid_git_timeout
    ELSE IF st.max_search_pages <= 0
    THEN ContribooConfigurationError_invalid_max_search_pages
    ELSE NoExc

\* Numbers around the limits, and a default.
SettingNumbers == { -1, 0, 1, 30 }

\* The keyword arguments of ContribooSettings(...).
SettingsArguments ==
    [github_token : { None, Some("token") },
     http_timeout_sec : SettingNumbers,
     http_retries : SettingNumbers,
     http_retry_delay_sec : SettingNumbers,
     git_timeout_sec : SettingNumbers,
     max_search_pages : SettingNumbers,
     workspace_dir : { None, Some("/work") }]

SettingsInit ==
    /\ ServiceOff
    /\ ProviderOff
    /\ GatewayOff
    /\ call_pc = "idle"
    /\ call_args \in { <<st>> : st \in SettingsArguments }
    /\ call_out = <<>>

\* ContribooSettings(**call_args[1]): the dataclass stores the fields and
\* __post_init__ validates them.
ContribooSettings ==
    /\ call_pc = "idle"
    /\ call_pc' = "settings"
    /\ call_out' = <<[exc |-> SettingsPostInit(call_args[1]), settings |-> call_args[1]]>>
    /\ UNCHANGED call_args
    /\ UNCHANGED <<svars, pvars, gvars>>

SpecSettings == SettingsInit /\ [][ContribooSettings]_vars

\* ======================================================================
\* Claims about ProfileAnalysisService.count_total_commits
\* ======================================================================

\* The gateway calls made for repository i.
CallsFor(i) == { k \in 1..Len(git_log) : git_log[k].i = i }

\* Repository i met a gateway failure of the given kind.
FailedWith(i, Kind(_)) ==
    \E k \in CallsFor(i) : git_log[k].exc # NoExc /\ Kind(git_log[k].exc)

AnyFailure(e) == TRUE

\* The run goes on after the gateway call k, the last one for its repository:
\* the next call is the clone of the next repository, or the run has returned.
GoesOnAfter(k) ==
    LET i == git_log[k].i
    IN IF i < Len(repositories)
       THEN IF k < Len(git_log)
            THEN git_log[k + 1].op = "clone" /\ git_log[k + 1].i = i + 1
            ELSE pc = "scan" /\ index = i + 1 /\ repo_pc = "clone"
       ELSE pc = "done" /\ result # None

\* A gateway failure of the given kind is turned into one skipped outcome with
\* the failure's message, and the run goes on to the aggregate.
FailuresAreSkipped(Kind(_)) ==
    /\ \A k \in 1..Len(git_log) :
         LET c == git_log[k]
         IN (c.exc # NoExc /\ Kind(c.exc)) =>
              /\ ~(pc = "raised" /\ raised = c.exc)
              /\ c.i <= Len(results)
              /\ results[c.i].full_name = repositories[c.i]
              /\ results[c.i].status = "skipped"
              /\ results[c.i].error = Some(c.exc.msg)
              /\ GoesOnAfter(k)
    /\ pc = "scan" => Len(results) = index - 1
    /\ pc = "done" =>
         /\ Len(results) = Len(repositories)
         /\ result[1].repo_results = results

\* C1 (as amended): a ContribooError raised by the history gateway in
\* clone_repository, resolve_mainline_branch or iter_commit_signatures (the call
\* or the iteration) never leaves count_total_commits: the repository gets
\* exactly one outcome, 'skipped' with error = str(exc), the next repository is
\* processed, and the aggregate is returned.
C1_DomainFailureIsSkipped == FailuresAreSkipped(IsContribooError)

\* C1 as claimed: the same for every failure the gateway raises.
C1_AnyFailureIsSkipped == FailuresAreSkipped(AnyFailure)

\* C1 witness: a run that returned its aggregate although the gateway failed
\* for its first repository, with a later repository counted.
C1_Witness ==
    /\ pc = "done"
    /\ Len(repositories) >= 2
    /\ FailedWith(1, IsContribooError)
    /\ results[Len(results)].status = "ok"

\* ----------------------------------------------------------------------
RECURSIVE SumOverOk(_)
SumOverOk(rs) ==
    IF rs = <<>> THEN 0
    ELSE (IF Head(rs).status = "ok" THEN Head(rs).commit_count ELSE 0)
         + SumOverOk(Tail(rs))

WithStatus(rs, st) == { i \in 1..Len(rs) : rs[i].status = st }

\* C2: every aggregate that count_total_commits returns has
\* repos_scanned = len(repo_results), total_commits = the sum of commit_count
\* over the 'ok' outcomes, and repos_skipped = the number of 'skipped' outcomes.
C2_AggregateInvariant ==
    result # None =>
        LET r == result[1]
        IN /\ r.repos_scanned = Len(r.repo_results)
           /\ r.total_commits = SumOverOk(r.repo_results)
           /\ r.repos_skipped = Cardinality(WithStatus(r.repo_results, "skipped"))

\* C2 witness: an aggregate over ok and skipped outcomes, one of them skipped
\* after commits had already been counted for it.
C2_Witness ==
    /\ result # None
    /\ result[1].total_commits > 0
    /\ result[1].repos_skipped > 0
    /\ \E k \in 1..Len(git_log) : git_log[k].op = "stream"

\* ----------------------------------------------------------------------
\* Repositories whose clone failed, whose branch resolution failed, or that
\* have neither main nor master.
FailedAcquisitionOrBranch ==
    { i \in 1..Len(repositories) :
        \E k \in CallsFor(i) :
            \/ git_log[k].op \in { "clone", "resolve" } /\ git_log[k].exc # NoExc
            \/ git_log[k].op = "resolve" /\ git_log[k].exc = NoExc
                                         /\ git_log[k].ret = None }

\* Repositories whose history was read to its end.
Successful ==
    { i \in 1..Len(repositories) :
        /\ \E k \in CallsFor(i) : git_log[k].op = "iter" /\ git_log[k].exc = NoExc
        /\ ~\E k \in CallsFor(i) : git_log[k].op = "stream" }

RECURSIVE SumCountsAt(_, _)
SumCountsAt(rs, I) ==
    IF I = {} THEN 0
    ELSE LET i == CHOOSE x \in I : TRUE
         IN rs[i].commit_count + SumCountsAt(rs, I \ { i })

\* C3: when K of the N discovered repositories fail acquisition or branch
\* resolution and the other N - K are read successfully, the aggregate has
\* repos_scanned = N, repos_skipped = K and total_commits = the sum of the
\* counts of the N - K successful repositories.
C3_PartialFailure ==
    (/\ result # None
     /\ Successful \cup FailedAcquisitionOrBranch = 1..Len(repositories))
    => LET r == result[1]
       IN /\ r.repos_scanned = Len(repositories)
          /\ r.repos_skipped = Cardinality(FailedAcquisitionOrBranch)
          /\ r.total_commits = SumCountsAt(r.repo_results, Successful)
          /\ \A i \in Successful : r.repo_results[i].status = "ok"

\* C3 witness: the three-repository scenario of the test: two matching commits
\* in the first, the clone of the second fails, the third has no main/master;
\* total 2, scanned 3, skipped 2.
C3_Witness ==
    /\ result # None
    /\ Len(repositories) = 3
    /\ Successful = { 1 }
    /\ \E k \in CallsFor(2) : git_log[k].op = "clone" /\ git_log[k].exc # NoExc
    /\ \E k \in CallsFor(3) : git_log[k].op = "resolve" /\ git_log[k].ret = None
                                  /\ git_log[k].exc = NoExc
    /\ result[1].total_commits = 2
    /\ result[1].repos_scanned = 3
    /\ result[1].repos_skipped = 2

\* ----------------------------------------------------------------------
\* C4: when find_repositories_for_author raises, the same exception leaves
\* count_total_commits: no aggregate, no gateway call, no work directory.
C4_DiscoveryFailurePropagates ==
    (p_raised # NoExc /\ pc # "discovering") =>
        /\ pc = "raised"
        /\ raised = p_raised
        /\ result = None
        /\ git_log = <<>>
        /\ results = <<>>
        /\ tmp_dir = "absent"

\* C4 witness: the provider raised an error that is not a ContribooError.
C4_Witness ==
    /\ pc = "raised"
    /\ provider_calls = 1
    /\ p_raised = Exc("RuntimeError", "provider failure")

\* ----------------------------------------------------------------------
\* The windows the interface accepts: "all", or a positive int that is no bool.
AcceptableDays(d) == (d.t = "str" /\ d.s = "all") \/ (d.t = "int" /\ d.n > 0)

\* C5: count_total_commits goes past validation exactly when days is "all" or
\* a positive non-bool integer; for every other value it raises
\* InvalidDaysRangeError before the provider or the gateway is called.
C5_DaysValidation ==
    /\ pc # "call" =>
         IF AcceptableDays(days)
         THEN ~(raised.cls = "InvalidDaysRangeError")
         ELSE /\ pc = "raised"
              /\ raised.cls = "InvalidDaysRangeError"
              /\ provider_calls = 0
              /\ git_log = <<>>
    /\ provider_calls > 0 => AcceptableDays(days)

\* C5 witness: a boolean window was rejected.
C5_Witness ==
    /\ pc = "raised"
    /\ days.t = "bool"
    /\ raised = InvalidDaysRangeError_must_be_positive_int_or_all

\* ----------------------------------------------------------------------
Norm(s) == Lower(Strip(s))

\* The matching rule as claimed: the email rule needs a non-empty input email,
\* the name rule compares the names whatever the username is.
ClaimedMatch(sig) ==
    \/ /\ Norm(OrEmpty(email)) # Str_Empty
       /\ Norm(OrEmpty(email)) \in { Norm(sig.author_email), Norm(sig.committer_email) }
    \/ Norm(username) \in { Norm(sig.author_name), Norm(sig.committer_name) }

\* The matching rule as amended: the name rule needs a non-empty username too.
AmendedMatch(sig) ==
    \/ /\ Norm(OrEmpty(email)) # Str_Empty
       /\ Norm(OrEmpty(email)) \in { Norm(sig.author_email), Norm(sig.committer_email) }
    \/ /\ Norm(username) # Str_Empty
       /\ Norm(username) \in { Norm(sig.author_name), Norm(sig.committer_name) }

\* _count_matching_commits counts the signatures that satisfy Match: the count
\* starts at 0, every streamed signature adds 1 when it matches and 0 when it
\* does not, and the count at the end of the stream is the one recorded.
CountsExactly(Match(_)) ==
    /\ (repo_pc = "iter" /\ repo_pc' = "stream") => commit_count' = 0
    /\ n_streamed' = n_streamed + 1 =>
         /\ signature' # None
         /\ commit_count' = commit_count + (IF Match(signature'[1]) THEN 1 ELSE 0)
    /\ (repo_pc = "stream" /\ Len(results') = Len(results) + 1
        /\ results'[Len(results')].status = "ok") =>
         results'[Len(results')].commit_count = commit_count

\* C6 (as amended): for one repository _count_matching_commits returns the
\* number of streamed signatures with (email non-empty and equal, normalized,
\* to the author or committer email) or (username non-empty and equal,
\* normalized, to the author or committer name); an email match alone counts,
\* and a commit matching on both counts once.
C6_CountsAmendedMatches == [][CountsExactly(AmendedMatch)]_vars

\* C6 as claimed: the name rule without the non-empty username condition.
C6_CountsClaimedMatches == [][CountsExactly(ClaimedMatch)]_vars

\* C6 witness: the second signature of a stream matched by committer email
\* alone, the first had matched by email and by name and was counted once.
C6_Witness ==
    /\ repo_pc = "stream"
    /\ n_streamed = 2
    /\ commit_count = 2
    /\ normalized_username = Str_a
    /\ normalized_email = Str_b
    /\ signature = Some(CommitSignature(Str_Empty, Str_Empty, Str_BSp, Str_Empty))

\* ======================================================================
\* Claims about GitHubProvider
\* ======================================================================
NoDuplicates(q) == \A i, j \in 1..Len(q) : q[i] = q[j] => i = j

Range(q) == { q[i] : i \in 1..Len(q) }

\* C7: a repository that the search names several times, on one page or on
\* several, is returned once: the returned list has no duplicates and holds
\* exactly the identifiers named, and repos_scanned of the run is the number of
\* distinct identifiers, not the number of hits.
C7_Deduplicated ==
    /\ p_result # None =>
         /\ NoDuplicates(p_result[1])
         /\ Range(p_result[1]) = hit_names
         /\ Len(p_result[1]) <= hit_count
    /\ (pc = "done" /\ result # None) =>
         result[1].repos_scanned = Cardinality(hit_names)

\* C7 witness: three hits, hence on two pages, all naming one repository, and
\* the run scanned one repository.
C7_Witness ==
    /\ pc = "done"
    /\ hit_count = 3
    /\ Cardinality(hit_names) = 1
    /\ result[1].repos_scanned = 1

\* ----------------------------------------------------------------------
Last(q) == q[Len(q)]

GetsOf(q) == { k \in 1..Len(q) : q[k].ev = "get" }

TransientOutcomes == { "ConnectionError", "Timeout" }

\* C8 as claimed: a short-wait rate-limit response is slept out and the same
\* request is issued again, whatever `retries` is, and it takes nothing from
\* the budget of the transient failures: GitHubConnectionError is raised only
\* after `retries` connection or timeout failures.
C8_RateLimitRetryIsFree ==
    /\ (io_log # <<>> /\ Last(io_log).ev = "sleep" /\ Last(io_log).out = "rate_limit")
         => (p_pc = "request" /\ page = Last(io_log).page)
    /\ (p_pc = "raised" /\ p_raised.cls = "GitHubConnectionError")
         => Cardinality({ k \in GetsOf(io_log) : io_log[k].out \in TransientOutcomes })
              = retries

\* ----------------------------------------------------------------------
\* C9 as claimed: for a rate-limit response with wait = reset - now + 1: when
\* 1 <= wait <= 60 the provider sleeps wait seconds and issues the same request
\* again; when wait >= 61 or wait <= 0 it raises GitHubRateLimitError at once,
\* without a sleep or another request, reporting max(wait, 0).
C9_RateLimitBoundary ==
    \A k \in GetsOf(io_log) :
        io_log[k].out = "rate_limit" =>
            IF 1 <= io_log[k].n /\ io_log[k].n <= 60
            THEN /\ k + 1 <= Len(io_log)
                 /\ io_log[k + 1] = SleepEvent(io_log[k].page, "rate_limit", io_log[k].n)
                 /\ IF k + 2 <= Len(io_log)
                    THEN io_log[k + 2].ev = "get" /\ io_log[k + 2].page = io_log[k].page
                    ELSE p_pc = "request" /\ page = io_log[k].page
            ELSE /\ k = Len(io_log)
                 /\ p_pc = "raised"
                 /\ p_raised.cls = "GitHubRateLimitError"
                 /\ p_raised.n = (IF io_log[k].n > 0 THEN io_log[k].n ELSE 0)

\* ----------------------------------------------------------------------
\* C10: when every attempt of a page request fails with a connection or
\* timeout error, _get_json makes exactly `retries` attempts, sleeps
\* retry_delay_sec between two attempts and not after the last, and raises
\* GitHubConnectionError; an attempt that succeeds ends the call: its payload
\* is handed to the page loop and no further attempt is made.
C10_TransientRetryBudget ==
    /\ (io_log # <<>> /\ \A k \in GetsOf(io_log) : io_log[k].out \in TransientOutcomes) =>
         LET n == Cardinality(GetsOf(io_log))
         IN /\ \A k \in 1..Len(io_log) :
                 IF k % 2 = 1
                 THEN io_log[k].ev = "get" /\ io_log[k].page = page
                 ELSE io_log[k] = SleepEvent(page, "retry", retry_delay_sec)
            /\ n <= retries
            /\ IF n = retries
               THEN /\ Len(io_log) = 2 * retries - 1
                    /\ p_pc = "raised"
                    /\ p_raised.cls = "GitHubConnectionError"
               ELSE /\ Len(io_log) = 2 * n
                    /\ p_pc = "request"
                    /\ attempt = n + 1
    /\ \A k \in GetsOf(io_log) :
         io_log[k].out = "object" =>
            /\ k = Len(io_log)
            /\ \/ p_pc = "returned"
               \/ p_pc = "request" /\ page = io_log[k].page + 1 /\ attempt = 1
               \/ p_pc = "raised" /\ p_raised.cls = "InvalidRepositoryNameError"

\* C10 witness: three attempts failed, two sleeps between them, and
\* GitHubConnectionError was raised.
C10_Witness ==
    /\ retries = 3
    /\ p_pc = "raised"
    /\ p_raised.cls = "GitHubConnectionError"
    /\ Len(io_log) = 5
    /\ retry_delay_sec = 2

\* C10 witness of the other half: the third attempt succeeded after two
\* failures and the next page is being asked for.
C10_WitnessSuccess ==
    /\ Len(io_log) = 5
    /\ io_log[5].out = "object"
    /\ io_log[1].out = "Timeout"
    /\ p_pc = "request"
    /\ page = 2

\* ----------------------------------------------------------------------
\* The rate-limit signature as the interface describes it.
RateLimitSignature(resp) ==
    resp.status_code = 403 /\ resp.remaining = Some("0") /\ resp.reset # None

\* C11: an HTTP error response without the rate-limit signature (status other
\* than 403, or X-RateLimit-Remaining not "0", or no X-RateLimit-Reset) makes
\* _get_json raise GitHubApiError on that attempt: the failed request is the
\* last thing the call did, no sleep and no further request follow, whatever
\* is left of `retries`.
C11_HttpErrorNotRetried ==
    (exc_response # None /\ ~RateLimitSignature(exc_response[1])) =>
        /\ p_pc = "raised"
        /\ p_raised = Exc("GitHubApiError", "GitHub API request failed")
        /\ io_log # <<>>
        /\ Last(io_log) = GetEvent(page, "HTTPError", 0)
        /\ Cardinality(GetsOf(io_log)) = attempt

\* C11 witness: a 403 with requests remaining ended the call on the second of
\* three attempts, after one retried transport failure.
C11_Witness ==
    /\ exc_response # None
    /\ exc_response[1].status_code = 403
    /\ exc_response[1].remaining = Some("5")
    /\ retries = 3
    /\ attempt = 2
    /\ p_pc = "raised"
    /\ Len(io_log) = 3

\* ----------------------------------------------------------------------
\* The pages requested so far start at 1, never go back, never skip a page and
\* never pass max_search_pages.
PagesInOrder ==
    /\ \A k \in 1..Len(requests) : requests[k] \in 1..max_search_pages
    /\ requests # <<>> => requests[1] = 1
    /\ \A k \in 1..(Len(requests) - 1) : requests[k + 1] \in { requests[k], requests[k] + 1 }

\* The request a step has just made, as io_log' records it.
StepGet ==
    IF Last(io_log').ev = "get" THEN Last(io_log') ELSE io_log'[Len(io_log') - 1]

\* One request of the page loop: it asks for `page`; the loop moves on, by one
\* page, exactly when that page came back with items and the cap is not
\* reached; an empty page ends the call at once; a call that returns after a
\* page with items has read page max_search_pages.
PageTurn ==
    /\ p_pc # "request" => requests' = requests
    /\ requests' # requests =>
         /\ requests' = Append(requests, page)
         /\ StepGet.page = page
         /\ page' \in { page, page + 1 }
         /\ page' = page + 1 =>
              /\ StepGet.out = "object" /\ StepGet.n > 0
              /\ page < max_search_pages
              /\ p_pc' = "request" /\ attempt' = 1
         /\ (StepGet.out = "object" /\ StepGet.n = 0) =>
              /\ p_pc' = "returned"
              /\ page' = page
         /\ (StepGet.out = "object" /\ p_pc' = "request") => page' = page + 1
         /\ (p_pc' = "returned" /\ StepGet.n > 0) => page = max_search_pages

\* C12: find_repositories_for_author requests pages 1, 2, 3, ... in increasing
\* order, stops right after the first page with zero items, never requests a
\* page above max_search_pages, and reads exactly max_search_pages pages when
\* every page has items.
C12_PagesInOrder == [](PagesInOrder) /\ [][PageTurn]_vars

\* C12 witness: both pages of a two-page search were read, page 1 at the second
\* attempt, and page 2 had items.
C12_Witness ==
    /\ p_pc = "returned"
    /\ max_search_pages = 2
    /\ requests = <<1, 1, 2>>
    /\ Last(io_log).ev = "get"
    /\ Last(io_log).n > 0

\* C12, the other stop: the first page of a two-page search was empty.
C12_WitnessEmptyPage ==
    /\ p_pc = "returned"
    /\ max_search_pages = 2
    /\ requests = <<1>>
    /\ Last(io_log) = GetEvent(1, "object", 0)

\* C13: whenever count_total_commits created its temporary work directory, the
\* directory is gone once the call has returned or raised, whether every
\* repository was ok, some were skipped, or an exception left the scan. The
\* directory exists exactly while the scan is running, and a call that made
\* any gateway call had created it.
C13_WorkDirectoryRemoved ==
    /\ pc \in { "done", "raised" } => tmp_dir # "exists"
    /\ tmp_dir = "exists" <=> pc = "scan"
    /\ (pc \in { "done", "raised" } /\ git_log # <<>>) => tmp_dir = "removed"
    /\ (pc = "done" /\ repositories # <<>>) => tmp_dir = "removed"

\* An exception that is no ContribooError left the scan of the second
\* repository, after the first was scanned; the directory is removed.
C13_Witness ==
    /\ pc = "raised"
    /\ ~IsContribooError(raised)
    /\ Len(results) = 1
    /\ git_log # <<>> /\ Last(git_log).i = 2
    /\ tmp_dir = "removed"

\* The call returned with one repository ok and one skipped; the directory is
\* removed.
C13_WitnessReturned ==
    /\ pc = "done"
    /\ \E i, j \in 1..Len(results) : results[i].status = "ok" /\ results[j].status = "skipped"
    /\ tmp_dir = "removed"

\* C14: count_total_commits produces exactly one outcome per discovered
\* repository, in discovery order: repo_results has the length of the list the
\* provider returned and repo_results[i].full_name is its i-th repository,
\* whatever the outcomes are; while the scan runs, the outcomes so far are
\* those of the repositories before the current one, in order.
C14_OneOutcomePerRepositoryInOrder ==
    /\ pc = "scan" =>
         /\ Len(results) = index - 1
         /\ \A i \in 1..Len(results) : results[i].full_name = p_result[1][i]
    /\ pc = "done" =>
         LET repo_results == result[1].repo_results
         IN /\ Len(repo_results) = Len(p_result[1])
            /\ \A i \in 1..Len(repo_results) :
                 /\ repo_results[i].full_name = p_result[1][i]
                 /\ repo_results[i].status \in { "ok", "skipped" }

\* Three repositories were discovered; the first is skipped, the second ok and
\* the third skipped.
C14_Witness ==
    /\ pc = "done"
    /\ Len(p_result[1]) = 3
    /\ p_result[1][1] # p_result[1][2] /\ p_result[1][2] # p_result[1][3]
    /\ result[1].repo_results[1].status = "skipped"
    /\ result[1].repo_results[2].status = "ok"
    /\ result[1].repo_results[3].status = "skipped"

\* C20: every outcome with status 'skipped' carries a reason: its error field
\* is a non-empty string, for every failure the gateway can raise and for the
\* branch-missing case.
C20_SkippedHasReason ==
    \A i \in 1..Len(results) :
        results[i].status = "skipped" =>
            /\ results[i].error # None
            /\ results[i].error[1] # ""

\* The identity value x is found among the signature fields, all normalized.
FoundAmong(x, fields) == x \in fields

FoundNonEmptyAmong(x, fields) == x # Str_Empty /\ x \in fields

\* The signature just streamed is counted whenever the input username is found,
\* by Found, among its normalized names, or the input email among its
\* normalized emails.
EqualAfterNormalizingIsCounted(Found(_, _)) ==
    n_streamed' = n_streamed + 1 =>
        LET sig == signature'[1]
        IN (\/ Found(Norm(username), { Norm(sig.author_name), Norm(sig.committer_name) })
            \/ Found(Norm(OrEmpty(email)),
                     { Norm(sig.author_email), Norm(sig.committer_email) }))
           => commit_count' = commit_count + 1

\* C16 (as amended): matching is insensitive to case and to surrounding
\* whitespace on both sides: if the input username (or email) and a signature
\* name (or email) field are equal and non-empty after trimming and
\* lower-casing each of them, the commit is counted, whatever case or
\* surrounding whitespace the raw values carry.
C16_NormalizedNonEmptyEqualIsCounted ==
    [][EqualAfterNormalizingIsCounted(FoundNonEmptyAmong)]_vars

\* C16 as claimed: values equal after trimming and lower-casing are counted,
\* the empty string included.
C16_NormalizedEqualIsCounted == [][EqualAfterNormalizingIsCounted(FoundAmong)]_vars

\* C16 witness: the username "A " was counted against the author name " A",
\* in a run whose email matches nothing.
C16_Witness ==
    /\ repo_pc = "stream"
    /\ n_streamed = 1
    /\ commit_count = 1
    /\ username = Str_ASp
    /\ email = None
    /\ signature = Some(CommitSignature(Str_Empty, Str_SpA, Str_Empty, Str_Empty))

\* The normalized email of a run whose email is absent or blank is empty, and
\* a signature streamed in such a run adds 1 exactly when the username, being
\* non-empty, is one of its normalized names.
NoEmailCountsByUsernameOnly ==
    (Norm(OrEmpty(email)) = Str_Empty /\ n_streamed' = n_streamed + 1) =>
        LET sig == signature'[1]
            by_name == /\ Norm(username) # Str_Empty
                       /\ Norm(username) \in { Norm(sig.author_name),
                                                Norm(sig.committer_name) }
        IN /\ normalized_email = Str_Empty
           /\ ~MatchesEmail(normalized_email, sig)
           /\ commit_count' = commit_count + (IF by_name THEN 1 ELSE 0)

\* C17: when email is absent (None) or normalizes to the empty string, no
\* commit is counted through the email rule, not even one whose author email
\* or committer email is itself empty; such a run counts only the commits that
\* match by username.
C17_EmptyEmailNeverMatches == [][NoEmailCountsByUsernameOnly]_vars

\* C17 witness: in a run with a blank email, a commit with empty emails and
\* foreign names was streamed and not counted.
C17_Witness ==
    /\ repo_pc = "stream"
    /\ n_streamed = 1
    /\ commit_count = 0
    /\ username = Str_B
    /\ email = Some(Str_Sp)
    /\ signature = Some(CommitSignature(Str_Empty, Str_SpA, Str_Empty, Str_SpA))

\* C17 witness: the same commit in a run without an email.
C17_WitnessAbsent ==
    /\ repo_pc = "stream"
    /\ n_streamed = 1
    /\ commit_count = 0
    /\ username = Str_B
    /\ email = None
    /\ signature = Some(CommitSignature(Str_Empty, Str_SpA, Str_Empty, Str_SpA))

\* C15: when discovery returns no repository, count_total_commits returns an
\* aggregate with total_commits = 0, repos_scanned = 0, repos_skipped = 0, an
\* empty repo_results sequence and finished_at not earlier than started_at;
\* no work directory is made and the gateway is not called.
C15_EmptyDiscovery ==
    (pc \in { "enter", "scan", "done" } /\ p_result = Some(<<>>)) =>
        /\ pc = "done"
        /\ result # None
        /\ result[1].total_commits = 0
        /\ result[1].repos_scanned = 0
        /\ result[1].repos_skipped = 0
        /\ result[1].repo_results = <<>>
        /\ result[1].started_at = started_at[1]
        /\ result[1].finished_at >= result[1].started_at
        /\ tmp_dir = "absent"
        /\ git_log = <<>>

\* C15 witness: discovery returned the empty list and the call returned its
\* aggregate, the clock having moved on in between.
C15_Witness ==
    /\ pc = "done"
    /\ p_result = Some(<<>>)
    /\ result # None
    /\ result[1].repo_results = <<>>
    /\ result[1].finished_at > result[1].started_at

\* C15 witness: the same with both readings of the clock equal.
C15_WitnessSameInstant ==
    /\ pc = "done"
    /\ p_result = Some(<<>>)
    /\ result # None
    /\ result[1].finished_at = result[1].started_at

\* ======================================================================
\* Claims about GitGateway
\* ======================================================================
TimedOutRuns == { k \in 1..Len(g_runs) : g_runs[k].kind = "timeout" }

ProbedBranches == [k \in 1..Len(g_runs) |-> g_runs[k].command[4]]

\* What resolve_mainline_branch is to return for the branches of the clone.
MainlineOf(branches) ==
    IF "main" \in branches THEN Some("main")
    ELSE IF "master" \in branches THEN Some("master")
    ELSE None

C18_CompletedProbesDecide ==
    (g_op = "resolve" /\ g_pc = "returned" /\ TimedOutRuns = {}) =>
        g_ret[1] = MainlineOf(remote_branches)

\* C19: every git command of the gateway that exceeds git_timeout_sec becomes
\* a typed timeout failure: the operation that ran it raises
\* GitOperationTimeoutError, and goes no further nor returns a value.
C19_TimeoutIsRaised ==
    TimedOutRuns # {} =>
        /\ g_pc = "raised"
        /\ g_raised.cls = "GitOperationTimeoutError"
        /\ g_raised.n = git_timeout_sec
        /\ g_ret = None

\* clone_repository and iter_commit_signatures do raise the timeout.
C19_TimeoutIsRaisedOutsideProbes ==
    (TimedOutRuns # {} /\ g_op \in { "clone", "iter" }) =>
        /\ g_pc = "raised"
        /\ g_raised.cls = "GitOperationTimeoutError"
        /\ g_raised.n = git_timeout_sec
        /\ g_ret = None

\* ----------------------------------------------------------------------
\* The resolve calls that returned None.
ResolvedNone == { k \in 1..Len(git_log) :
                    /\ git_log[k].op = "resolve"
                    /\ git_log[k].exc = NoExc
                    /\ git_log[k].ret = None }

\* C21: when resolve_mainline_branch returns None for a repository,
\* count_total_commits records, without raising, an outcome with status
\* 'skipped', branch None, commit_count 0 and error exactly "main/master
\* branch not found"; iter_commit_signatures is never called for that
\* repository and the run goes on.
C21_BranchMissingIsSkipped ==
    \A k \in ResolvedNone :
        LET i == git_log[k].i
        IN /\ i <= Len(results)
           /\ results[i] = [full_name |-> repositories[i], branch |-> None,
                            commit_count |-> 0, status |-> "skipped",
                            error |-> Some("main/master branch not found")]
           /\ \A j \in CallsFor(i) : git_log[j].op \in { "clone", "resolve" }
           /\ \A j \in CallsFor(i) : j <= k
           /\ GoesOnAfter(k)
           /\ pc = "raised" => k # Len(git_log)

\* C21 witness: the first of two repositories had no mainline branch, the run
\* went on and returned.
C21_Witness ==
    /\ pc = "done"
    /\ Len(repositories) = 2
    /\ \E k \in ResolvedNone : git_log[k].i = 1
    /\ results[1].error = Some("main/master branch not found")
    /\ results[2].status = "ok"

\* ----------------------------------------------------------------------
\* The requests of the _get_json call in progress that came back with a body
\* that is no JSON object.
NonObjectGets ==
    { k \in 1..Len(io_log) : io_log[k].ev = "get" /\ io_log[k].out = "non_object" }

\* C22: a transport-successful response whose decoded JSON body is not an
\* object makes _get_json raise GitHubResponseSchemaError on that attempt: the
\* request is the last thing the call did, no sleep and no further request
\* follow, whatever is left of `retries`.
C22_NonObjectNotRetried ==
    \A k \in NonObjectGets :
        /\ k = Len(io_log)
        /\ p_pc = "raised"
        /\ p_raised = Exc("GitHubResponseSchemaError",
                          "GitHub API returned non-object response")
        /\ Cardinality(GetsOf(io_log)) = attempt
        /\ requests[Len(requests)] = page

\* C22 witness: the body was no object on the second of three attempts, after
\* one retried transport failure.
C22_Witness ==
    /\ NonObjectGets # {}
    /\ retries = 3
    /\ attempt = 2
    /\ p_pc = "raised"
    /\ Len(io_log) = 3
    /\ io_log[2].ev = "sleep"

\* ----------------------------------------------------------------------
Disallowed(command) == command = <<>> \/ command[1] # "git"

\* C23: for every command list that is empty or whose first element is not
\* "git", _run raises GitOperationError and no process is spawned for it; a
\* subprocess is only ever started for a command that begins with "git", and
\* every such command handed to _run is started.
C23_DisallowedCommandNotSpawned ==
    /\ \A k \in 1..Len(g_runs) : ~Disallowed(g_runs[k].command)
    /\ (g_command # None /\ Disallowed(g_command[1])) =>
         /\ g_pc = "raised"
         /\ g_raised.cls = "GitOperationError"
         /\ g_raised.msg = (IF g_command[1] = <<>> THEN "Git command must not be empty"
                            ELSE "Only git commands are allowed")
         /\ g_runs = <<>>
    /\ (g_command # None /\ ~Disallowed(g_command[1])) =>
         /\ g_runs # <<>>
         /\ g_runs[Len(g_runs)].command = g_command[1]

\* C23 witness: _run was handed a shell command naming git and refused it.
C23_Witness ==
    /\ g_op = "run"
    /\ g_command = Some(<<"sh", "-c", "git status">>)
    /\ g_pc = "raised"
    /\ g_runs = <<>>

\* C23 witness: the empty command.
C23_WitnessEmpty ==
    /\ g_op = "run"
    /\ g_command = Some(<<>>)
    /\ g_pc = "raised"
    /\ g_runs = <<>>

\* ======================================================================
\* Claims about the value objects
\* ======================================================================
\* C24: clone_repository derives the clone directory from the identifier
\* without collisions: two distinct valid RepositoryName values under the same
\* target_root get two different directories.
C24_CloneDirectoriesDistinct ==
    (Len(call_out) = 2 /\ call_pc = "clone_repository"
     /\ call_args[1] # call_args[2]) => call_out[1] # call_out[2]

\* ----------------------------------------------------------------------
\* C25: for every string s that RepositoryName.parse accepts,
\* parse(str(parse(s))) succeeds and equals parse(s): same owner, same
\* repository name, hence equal and of equal hash as a set or dict key.
C25_ParseRoundTrip ==
    /\ call_pc = "parse_again" =>
         /\ call_out[2].exc = NoExc
         /\ call_out[2].name.owner = call_out[1].name.owner
         /\ call_out[2].name.repo = call_out[1].name.repo
         /\ call_out[2].name = call_out[1].name
    /\ (call_pc = "parse" /\ call_out[1].exc = NoExc) => ENABLED RepositoryNameParseAgain

\* C25 witness: " A/a " was parsed to (A, a), and "A/a" parsed again.
C25_Witness ==
    /\ call_pc = "parse_again"
    /\ call_args = << <<" ", "A", "/", "a", " ">> >>
    /\ call_out[1].name = RepositoryName(<<"A">>, <<"a">>)
    /\ call_out[2].name = RepositoryName(<<"A">>, <<"a">>)

\* ----------------------------------------------------------------------
\* The two segments of value around its first "/"; both empty without one.
FirstSegment(value) ==
    IF HasSlash(value) THEN SubSeq(value, 1, FirstSlash(value, 1) - 1) ELSE <<>>

SecondSegment(value) ==
    IF HasSlash(value) THEN SubSeq(value, FirstSlash(value, 1) + 1, Len(value)) ELSE <<>>

\* The segments as they are.
AsWritten(segment) == segment

\* parse raises InvalidRepositoryNameError exactly when value has no "/" or
\* its segments, as Seen, are not two non-empty, slash-free strings; otherwise
\* it returns the identifier of the two segments as Seen.
ParsesTwoSegments(Seen(_)) ==
    call_pc = "parse" =>
        LET value == call_args[1]
            owner == Seen(FirstSegment(value))
            repo == Seen(SecondSegment(value))
            two == /\ HasSlash(value)
                   /\ owner # <<>> /\ repo # <<>>
                   /\ ~HasSlash(owner) /\ ~HasSlash(repo)
        IN /\ ~two <=> call_out[1].exc # NoExc
           /\ ~two => call_out[1].exc.cls = "InvalidRepositoryNameError"
           /\ two => call_out[1].name = RepositoryName(owner, repo)

\* C26 (as amended): parse raises InvalidRepositoryNameError exactly when the
\* string, split on its first '/', does not give two segments that are
\* non-empty and slash-free after surrounding whitespace is trimmed: no '/',
\* an empty or blank owner, an empty or blank name, a further '/' in the
\* second segment; otherwise it returns the identifier whose owner and name
\* are the two trimmed segments.
C26_ParseRejectsExactly == ParsesTwoSegments(Strip)

\* C26 as claimed: the segments are taken as they are written.
C26_ParseRejectsExactlyUntrimmed == ParsesTwoSegments(AsWritten)

\* C26 witness: "a/a/a" is refused for the '/' in its second segment.
C26_Witness ==
    /\ call_pc = "parse"
    /\ call_args = << <<"a", "/", "a", "/", "a">> >>
    /\ call_out[1].exc = InvalidRepositoryNameError_slash_in_part

\* C26 witness: " /a" is refused although both segments are non-empty.
C26_WitnessBlankOwner ==
    /\ call_pc = "parse"
    /\ call_args = << <<" ", "/", "a">> >>
    /\ call_out[1].exc = InvalidRepositoryNameError_invalid_format

\* ----------------------------------------------------------------------
\* C27: constructing ContribooSettings raises ContribooConfigurationError
\* exactly when http_timeout_sec <= 0, http_retries <= 0,
\* http_retry_delay_sec < 0, git_timeout_sec <= 0 or max_search_pages <= 0; a
\* retry delay of 0 is accepted, and github_token and workspace_dir may be
\* absent.
C27_SettingsValidation ==
    call_pc = "settings" =>
        LET st == call_args[1]
            out_of_range == \/ st.http_timeout_sec <= 0
                            \/ st.http_retries <= 0
                            \/ st.http_retry_delay_sec < 0
                            \/ st.git_timeout_sec <= 0
                            \/ st.max_search_pages <= 0
        IN /\ out_of_range <=> call_out[1].exc # NoExc
           /\ out_of_range => call_out[1].exc.cls = "ContribooConfigurationError"
           /\ ~out_of_range => call_out[1].settings = st

\* C27 witness: settings with a retry delay of 0 and neither token nor
\* workspace directory were accepted.
C27_Witness ==
    /\ call_pc = "settings"
    /\ call_args[1].http_retry_delay_sec = 0
    /\ call_args[1].github_token = None
    /\ call_args[1].workspace_dir = None
    /\ call_out[1].exc = NoExc

\* C27 witness: a negative retry delay alone is refused.
C27_WitnessNegativeDelay ==
    /\ call_pc = "settings"
    /\ call_args[1] = [github_token |-> None, http_timeout_sec |-> 30,
                       http_retries |-> 1, http_retry_delay_sec |-> -1,
                       git_timeout_sec |-> 30, max_search_pages |-> 1,
                       workspace_dir |-> None]
    /\ call_out[1].exc = Exc("ContribooConfigurationError",
                             "http_retry_delay_sec must be >= 0")

\* The query term every request of the running call has to carry, from the
\* arguments of the call.
ExpectedQueryText ==
    IF p_days.t = "str" /\ p_days.s = "all"
    THEN "author:" \o Text(p_username)
    ELSE "author:" \o Text(p_username) \o " committer-date:>=" \o IsoFormat(Today - p_days.n)

QueryCarriedByEveryRequest ==
    /\ Len(sent_params) = Len(requests)
    /\ sent_params # <<>> => query # None
    /\ \A k \in 1..Len(sent_params) :
           /\ sent_params[k].q = ExpectedQueryText
           /\ sent_params[k].q = sent_params[1].q
           /\ sent_params[k].per_page = 100
           /\ sent_params[k].page = requests[k]

QueryBuiltOnceBeforeFirstRequest ==
    query' # query => /\ query = None
                      /\ query' # None
                      /\ requests = <<>>
                      /\ sent_params = <<>>

\* C28: within one find_repositories_for_author call the query is built once,
\* before the first request, and every page request, retries included, carries
\* that same query and per_page = 100: author:<username> alone for days "all",
\* author:<username> committer-date:>=<date> with the one cutoff date of the
\* build for N days.
C28_OneQueryPerCall ==
    [](QueryCarriedByEveryRequest) /\ [][QueryBuiltOnceBeforeFirstRequest]_vars

\* A bounded window whose first page was retried and whose second page was
\* requested with the same cutoff date.
C28_Witness ==
    /\ p_days = Days("int", "", 7)
    /\ requests = <<1, 1, 2>>
    /\ \A k \in 1..3 : sent_params[k].q = "author:a committer-date:>=day-93"

\* An unbounded window requested over two pages.
C28_WitnessAll ==
    /\ p_days = Days("str", "all", 0)
    /\ Len(requests) >= 2 /\ requests[Len(requests)] = 2
    /\ \A k \in 1..Len(sent_params) : sent_params[k].q = "author:a"

\* The place of a gateway operation in the scan of one repository; "stream" is
\* the consumption of what iter_commit_signatures handed over.
OpRank(op) ==
    CASE op = "clone" -> 1
      [] op = "resolve" -> 2
      [] op = "iter" -> 3
      [] op = "stream" -> 4

GatewayCallsInOrder ==
    \A k \in 1..Len(git_log) :
        LET call == git_log[k]
        IN \* each operation at most once per repository
           /\ \A j \in 1..Len(git_log) :
                  (git_log[j].i = call.i /\ git_log[j].op = call.op) => j = k
           \* a scan opens with clone_repository, of the first repository or of
           \* the one after a repository that is finished with
           /\ call.op = "clone" =>
                  \/ k = 1 /\ call.i = 1
                  \/ /\ k > 1
                     /\ git_log[k - 1].i = call.i - 1
                     /\ Len(results) >= call.i - 1
           \* resolve_mainline_branch only after clone_repository returned
           /\ call.op = "resolve" =>
                  /\ k > 1
                  /\ git_log[k - 1] = GitCall("clone", call.i, NoExc, None)
           \* iter_commit_signatures only after a branch was returned
           /\ call.op \in { "iter", "stream" } =>
                  /\ k > 1
                  /\ git_log[k - 1].i = call.i
                  /\ git_log[k - 1].exc = NoExc
                  /\ OpRank(git_log[k - 1].op) = OpRank(call.op) - 1
                  /\ call.op = "iter" => git_log[k - 1].ret # None
           \* nothing for a repository after a failure or a missing branch
           /\ (call.exc # NoExc \/ (call.op = "resolve" /\ call.ret = None)) =>
                  \A j \in (k + 1)..Len(git_log) : git_log[j].i # call.i
           \* repository by repository
           /\ \A j \in 1..(k - 1) : git_log[j].i <= call.i

GatewayCalledForCurrentRepository ==
    git_log' # git_log =>
        /\ pc = "scan"
        /\ Len(git_log') = Len(git_log) + 1
        /\ SubSeq(git_log', 1, Len(git_log)) = git_log
        /\ git_log'[Len(git_log')].i = index
        /\ Len(results) = index - 1

\* C29: for each repository the gateway is invoked in the order
\* clone_repository, resolve_mainline_branch, iter_commit_signatures, each at
\* most once per run: resolve only after clone returned, iter only after a
\* branch was returned, nothing more for a repository after a failure, and
\* every operation for one repository before any operation for the next.
C29_GatewayCallOrder ==
    [](GatewayCallsInOrder) /\ [][GatewayCalledForCurrentRepository]_vars

\* A returned call whose first repository went through all three operations
\* and whose second repository failed in resolve_mainline_branch.
C29_Witness ==
    /\ pc = "done"
    /\ Len(git_log) = 5
    /\ git_log[1].op = "clone" /\ git_log[2].op = "resolve" /\ git_log[3].op = "iter"
    /\ \A k \in 1..3 : git_log[k].i = 1 /\ git_log[k].exc = NoExc
    /\ git_log[4] = GitCall("clone", 2, NoExc, None)
    /\ git_log[5].op = "resolve" /\ git_log[5].exc # NoExc
    /\ results[2].status = "skipped"

\* ---------------------------------------------------------------------------
\* Claims about the progress lines of count_total_commits
\* ---------------------------------------------------------------------------

\* The two progress lines of the k-th repository, whose outcome is recorded.
ProgressOfFinished(k) ==
    /\ progress[2 * k - 1].kind = "start"
    /\ progress[2 * k - 1].index = k
    /\ progress[2 * k].kind = "result"
    /\ progress[2 * k].index = k
    /\ progress[2 * k].status = results[k].status
    /\ \A j \in { 2 * k - 1, 2 * k } :
           /\ progress[j].total = Len(repositories)
           /\ progress[j].full_name = results[k].full_name

ProgressFollowsOutcomes ==
    IF show_progress
    THEN /\ Len(progress) \in { 2 * Len(results), 2 * Len(results) + 1 }
         /\ \A k \in 1..Len(results) : ProgressOfFinished(k)
         /\ Len(progress) = 2 * Len(results) + 1 =>
                /\ progress[Len(progress)].kind = "start"
                /\ progress[Len(progress)].index = Len(results) + 1
         /\ pc = "done" => Len(progress) = 2 * Len(repositories)
    ELSE progress = <<>>

ProgressOnlyGrows ==
    /\ Len(progress') >= Len(progress)
    /\ SubSeq(progress', 1, Len(progress)) = progress

\* C30: with show_progress disabled count_total_commits logs no progress line;
\* with it enabled every repository gets exactly one start line followed by
\* exactly one finished line, the finished line of repository k comes before
\* the start line of k+1, and the status of the finished line is the status of
\* the outcome recorded for k.
C30_ProgressLines ==
    [](ProgressFollowsOutcomes) /\ [][ProgressOnlyGrows]_vars

\* A returned call with progress lines for an ok outcome and for a missing
\* mainline branch.
C30_Witness ==
    /\ show_progress
    /\ pc = "done"
    /\ Len(progress) = 4
    /\ results[1].status = "ok" /\ progress[2].status = "ok"
    /\ progress[2].message = "1 matching commits"
    /\ results[2].status = "skipped"
    /\ progress[4].status = "skipped"
    /\ progress[4].message = "main/master branch not found"

\* A failure skip with its finished line.
C30_WitnessFailure ==
    /\ show_progress
    /\ pc = "done"
    /\ \E k \in 1..Len(git_log) : git_log[k].exc # NoExc
    /\ progress[Len(progress)].status = "skipped"
    /\ Some(progress[Len(progress)].message) = results[Len(results)].error

\* A returned call over two repositories with progress lines disabled.
C30_WitnessDisabled ==
    /\ ~show_progress
    /\ pc = "done"
    /\ Len(results) = 2
    /\ progress = <<>>

\* ---------------------------------------------------------------------------
\* Claims about GitGateway.iter_commit_signatures and GitHubProvider's budget
\* ---------------------------------------------------------------------------

\* What git log printed in the latest subprocess.run call.
EmittedLog == g_runs[Len(g_runs)].stdout

\* C31: iter_commit_signatures returns one signature per log line that splits
\* into exactly four fields on the unit separator, in the order of the lines,
\* every field trimmed and lower-cased; lines with another field count are
\* dropped and empty output gives the empty sequence.
C31_OneSignaturePerFourFieldLine ==
    (g_op = "iter" /\ g_pc = "returned") =>
        /\ g_ret[1] = ParseLines(SplitLines(EmittedLog))
        /\ EmittedLog = <<>> => g_ret[1] = <<>>

\* The requests issued for page p so far.
RequestsFor(p) == { k \in 1..Len(requests) : requests[k] = p }

RequestsWithinBudget ==
    /\ \A k \in 1..Len(requests) : requests[k] \in 1..max_search_pages
    /\ \A p \in 1..max_search_pages : Cardinality(RequestsFor(p)) <= retries
    /\ Len(requests) <= max_search_pages * retries

CallHasEnded == p_pc \in { "returned", "raised" }

LastAttemptRateLimited ==
    /\ Len(io_log) >= 2
    /\ Last(io_log).ev = "sleep"
    /\ Last(io_log).out = "rate_limit"
    /\ Cardinality(GetsOf(io_log)) = retries

ListOnlyFromReturnedCall ==
    /\ p_result # None <=> p_pc = "returned"
    /\ p_pc = "raised" => p_result = None /\ p_raised # NoExc
    /\ p_pc = "returned" =>
         /\ p_raised = NoExc
         /\ Last(io_log).ev = "get" /\ Last(io_log).out = "object"
         /\ p_result[1] = found

\* The search moves on to the next page only from a page that was read.
NextPageOnlyAfterRead ==
    (page' # page /\ page > 0) =>
        /\ page' = page + 1
        /\ Last(io_log').ev = "get"
        /\ Last(io_log').out = "object"
        /\ Last(io_log').page = page

\* C34: find_repositories_for_author is all-or-nothing: when a page request
\* fails after pages were read, or a full_name fails RepositoryName.parse, the
\* call raises and what earlier pages gave is not returned; a list is
\* returned only when every page read succeeded.
C34_AllOrNothing ==
    [](ListOnlyFromReturnedCall) /\ [][NextPageOnlyAfterRead]_vars

\* The request for page 2 failed after page 1 had given a repository.
C34_Witness ==
    /\ p_pc = "raised"
    /\ page = 2
    /\ found # <<>>
    /\ Last(io_log).out # "object"
    /\ p_result = None

\* A full_name of page 2 was rejected after page 1 had given a repository.
C34_WitnessParse ==
    /\ p_pc = "raised"
    /\ page = 2
    /\ found # <<>>
    /\ p_raised.cls = "InvalidRepositoryNameError"
    /\ p_result = None

\* ---------------------------------------------------------------------------
\* Claims about the outcomes of count_total_commits
\* ---------------------------------------------------------------------------

\* C35: an exception of the gateway that is no ContribooError, during any
\* repository's processing, is not made a skipped outcome: it leaves
\* count_total_commits, no aggregate is returned, the repositories after it
\* are not processed, and the temporary work directory is removed.
C35_ForeignExceptionPropagates ==
    \A k \in 1..Len(git_log) :
        (git_log[k].exc # NoExc /\ ~IsContribooError(git_log[k].exc)) =>
            /\ k = Len(git_log)
            /\ pc = "raised"
            /\ raised = git_log[k].exc
            /\ result = None
            /\ Len(results) = git_log[k].i - 1
            /\ \A j \in 1..Len(git_log) : git_log[j].i <= git_log[k].i
            /\ tmp_dir = "removed"

\* The git binary could not be started while the history of the first of
\* three repositories was read: nothing is recorded and nothing follows.
C35_Witness ==
    /\ pc = "raised"
    /\ Len(repositories) = 3
    /\ Last(git_log).op \in { "iter", "stream" }
    /\ Last(git_log).i = 1
    /\ raised.cls = "FileNotFoundError"
    /\ results = <<>>
    /\ result = None
    /\ tmp_dir = "removed"

\* The shape of one outcome, by its status.
OutcomeWellFormed(r) ==
    /\ r.status \in { "ok", "skipped" }
    /\ r.status = "ok" => r.branch # None /\ r.error = None
    /\ r.status = "skipped" => r.commit_count = 0 /\ r.branch = None

\* C36: in every result of count_total_commits an ok outcome has a branch and
\* no error and a skipped outcome has commit_count 0 and no branch, also when
\* the failure came while the signatures were streamed, after the branch had
\* been resolved; hence the sum of commit_count over all outcomes is the sum
\* over the ok outcomes.
C36_OutcomeShapes ==
    /\ \A i \in 1..Len(results) : OutcomeWellFormed(results[i])
    /\ SumCommitCount(results) = SumOverOk(results)
    /\ (pc = "done" /\ result # None) =>
         /\ \A i \in 1..Len(result[1].repo_results) :
                OutcomeWellFormed(result[1].repo_results[i])
         /\ SumCommitCount(result[1].repo_results) = SumOverOk(result[1].repo_results)

\* A returned call whose first repository failed while its signatures were
\* streamed, after "main" had been resolved, and whose second repository
\* counted commits.
C36_Witness ==
    /\ pc = "done"
    /\ Len(results) = 2
    /\ \E k \in 3..Len(git_log) :
         /\ git_log[k].op = "stream" /\ git_log[k].i = 1
         /\ IsContribooError(git_log[k].exc)
         /\ git_log[k - 2] = GitCall("resolve", 1, NoExc, Some("main"))
    /\ results[1].status = "skipped"
    /\ results[1].branch = None /\ results[1].commit_count = 0
    /\ results[2].status = "ok" /\ results[2].commit_count > 0

\* The clone_repository calls so far.
CloneCalls == { k \in 1..Len(git_log) : git_log[k].op = "clone" }

WorkDirectoryAroundGatewayCalls ==
    \* empty discovery creates no directory, non-empty discovery one
    /\ (pc = "done" /\ repositories = <<>>) =>
           tmp_dir = "absent" /\ scan_target_root = None /\ git_log = <<>>
    /\ (pc = "done" /\ repositories # <<>>) =>
           tmp_dir = "removed" /\ scan_target_root # None
    /\ tmp_dir = "absent" <=> scan_target_root = None
    \* no gateway call without the directory
    /\ git_log # <<>> => tmp_dir # "absent"
    \* every clone_repository call was handed the directory
    /\ Len(clone_roots) = Cardinality(CloneCalls)
    /\ \A k \in 1..Len(clone_roots) : clone_roots[k] = scan_target_root[1]

WorkDirectoryLifeCycle ==
    \* created once, removed once, never created again
    /\ tmp_dir' # tmp_dir =>
           \/ tmp_dir = "absent" /\ tmp_dir' = "exists" /\ repositories # <<>>
           \/ tmp_dir = "exists" /\ tmp_dir' = "removed"
    /\ scan_target_root # None => scan_target_root' = scan_target_root
    \* a gateway call begins while the directory exists
    /\ git_log' # git_log => tmp_dir = "exists"

\* C37: a run with non-empty discovery creates exactly one temporary work
\* directory and a run with empty discovery none; every clone_repository,
\* resolve_mainline_branch and iter_commit_signatures call happens after the
\* directory was created and before it is removed, and every clone_repository
\* call receives that directory as target_root.
C37_OneWorkDirectory ==
    [](WorkDirectoryAroundGatewayCalls) /\ [][WorkDirectoryLifeCycle]_vars

\* A returned call that cloned three repositories into its one directory.
C37_Witness ==
    /\ pc = "done"
    /\ clone_roots = <<TargetRoot, TargetRoot, TargetRoot>>
    /\ scan_target_root = Some(TargetRoot)
    /\ tmp_dir = "removed"

\* A returned call whose discovery was empty.
C37_WitnessEmpty ==
    /\ pc = "done"
    /\ p_result = Some(<<>>)
    /\ tmp_dir = "absent"
    /\ clone_roots = <<>>

\* ---------------------------------------------------------------------------
\* Claims about the list find_repositories_for_author returns
\* ---------------------------------------------------------------------------

RECURSIVE NamesRead(_)
\* The repositories the items of one page name, item by item.
NamesRead(items) ==
    IF items = <<>> THEN <<>>
    ELSE (IF Usable(Head(items)) THEN <<Parse(Head(items)[1][1]).name>> ELSE <<>>)
         \o NamesRead(Tail(items))

RECURSIVE NamesReadOnPages(_, _)
\* The same for the first n pages, page by page.
NamesReadOnPages(pages, n) ==
    IF n = 0 THEN <<>> ELSE NamesReadOnPages(pages, n - 1) \o NamesRead(pages[n])

\* q without the later occurrences of its elements.
FirstOccurrences(q) ==
    SelectSeq([k \in 1..Len(q) |-> [at |-> k, name |-> q[k]]],
              LAMBDA e : \A j \in 1..(e.at - 1) : q[j] # e.name)

\* C38: the list find_repositories_for_author returns is ordered by first
\* appearance: the repositories are in the order in which their first
\* occurrence was read, page by page and item by item, so the list is a
\* function of the page responses and a later duplicate moves nothing.
C38_OrderedByFirstAppearance ==
    \A n \in 1..Len(call_out) :
        LET read == FirstOccurrences(NamesReadOnPages(call_args, n))
            keys == call_out[n].keys
        IN /\ Len(keys) = Len(read)
           /\ \A k \in 1..Len(keys) : keys[k] = read[k].name
           /\ n > 1 => SubSeq(keys, 1, Len(call_out[n - 1].keys)) = call_out[n - 1].keys

\* Page 1 names a/a then b/a; page 2 names b/a, then a/a again: the list is
\* a/a, b/a.
C38_Witness ==
    /\ call_pc = "return"
    /\ call_args = << <<Some(Some(Name_a_a)), Some(Some(Name_b_a))>>,
                      <<Some(Some(Name_b_a)), Some(Some(Name_a_sp_a))>> >>
    /\ Len(call_out) = 2
    /\ call_out[2].keys = <<Parse(Name_a_a).name, Parse(Name_b_a).name>>

\* A step read a page that has items, none of them usable: nothing was
\* counted as a hit and nothing was rejected.
ReadPageWithoutUsableItem ==
    /\ requests' # requests
    /\ StepGet.out = "object"
    /\ StepGet.n > 0
    /\ hit_count' = hit_count
    /\ p_pc' # "raised"

\* C39: items without a repository or with a missing or empty full_name add
\* nothing to the result and do not end pagination: a page with items of which
\* none is usable is followed by the request for the next page while the page
\* is below max_search_pages; only an empty item list stops the search early.
C39_UnusableItemsDoNotStop ==
    [][/\ ReadPageWithoutUsableItem =>
            /\ found' = found
            /\ hit_names' = hit_names
            /\ IF page < max_search_pages
               THEN /\ p_pc' = "request"
                    /\ page' = page + 1
                    /\ attempt' = 1
               ELSE p_pc' = "returned" /\ p_result' = Some(found)
       /\ (requests' # requests /\ p_pc' = "returned" /\ page < max_search_pages) =>
            StepGet = GetEvent(page, "object", 0)]_vars

\* Page 1 of two had items and none was usable; page 2 was then requested and
\* named a repository.
C39_Witness ==
    /\ max_search_pages = 2
    /\ requests = <<1, 2>>
    /\ p_pc = "returned"
    /\ hit_count = 1
    /\ Len(found) = 1
    /\ Last(io_log) = GetEvent(2, "object", 1)

\* A signature streamed in a run whose username is empty or blank adds 1
\* exactly when the input email, being non-empty, is one of its normalized
\* emails: the name rule matches nothing, empty names included.
EmptyUsernameCountsByEmailOnly ==
    (Norm(username) = Str_Empty /\ n_streamed' = n_streamed + 1) =>
        LET sig == signature'[1]
            by_email == /\ Norm(OrEmpty(email)) # Str_Empty
                        /\ Norm(OrEmpty(email)) \in { Norm(sig.author_email),
                                                      Norm(sig.committer_email) }
        IN /\ normalized_username = Str_Empty
           /\ ~MatchesUsername(normalized_username, sig)
           /\ commit_count' = commit_count + (IF by_email THEN 1 ELSE 0)

\* With an empty or blank username and no email, nothing is ever counted and
\* every ok outcome carries commit_count 0.
NoIdentityCountsNothing ==
    (Norm(username) = Str_Empty /\ email = None) =>
        /\ commit_count = 0
        /\ \A k \in 1..Len(results) :
             results[k].status = "ok" => results[k].commit_count = 0

\* C40: a username that normalizes to the empty string (empty or whitespace
\* only) matches no commit through the name rule, including commits whose
\* author name or committer name is empty; with such a username and an absent
\* email every ok repository has commit_count 0.
C40_EmptyUsernameNeverMatches ==
    [](NoIdentityCountsNothing) /\ [][EmptyUsernameCountsByEmailOnly]_vars

\* C40 witness: in a run with a blank username and no email, a commit whose
\* names and emails are all empty was streamed and not counted.
C40_Witness ==
    /\ repo_pc = "stream"
    /\ n_streamed = 1
    /\ commit_count = 0
    /\ username = Str_Sp
    /\ email = None
    /\ signature = Some(CommitSignature(Str_Empty, Str_Empty, Str_Empty, Str_Empty))

\* C40 witness: such a run, with an empty username, ended with an ok outcome.
C40_WitnessResult ==
    /\ pc = "done"
    /\ username = Str_Empty
    /\ email = None
    /\ Len(results) = 1
    /\ results[1].status = "ok"
    /\ results[1].commit_count = 0

====
